---- MODULE Spec2Model ----
(***************************************************************************)
(* Token discovery and alert lifecycle of the memecoin detection bot       *)
(* (src/main.py): the mirror, the first-seen baseline store, the tracking  *)
(* set, the pin table, the periodic discovery task (do_trade_push) and the *)
(* periodic refresh task (updater), which interleave at their awaits.      *)
(*                                                                         *)
(* Time is counted in minutes.  Amounts are whole US dollars.              *)
(*                                                                         *)
(* The social resolver (TwitterScraper: cache, proxy chain with success     *)
(* affinity) and the resolution task that follows a discovery alert are    *)
(* modelled with their callers in specifications of their own; the         *)
(* tw_scraped mark of a FIRST_SEEN record is the variable tw_scraped.      *)
(*                                                                         *)
(* Left out: the caps TOP_N_PER_TICK and NO_MATCH_PING (both 0 by default, *)
(* so their branches are dead), the overlap text of a FIRST_SEEN record    *)
(* and the multi-user trigger that follows the send in send_new_token      *)
(* (they touch none of the state below).  The awaits inside one            *)
(* _send_or_photo call are taken as one suspension: between them the call  *)
(* reads no shared state.                                                  *)
(***************************************************************************)
EXTENDS Integers, Sequences, FiniteSets, TLC

\* ------------------------------------------------------------------------
\* Program constants (src/main.py, environment defaults)
\* ------------------------------------------------------------------------
MIN_LIQ_USD == 35000
MIN_MCAP_USD == 70000
MIN_VOL_H24_USD == 40000
MAX_AGE_MIN == 120
UPDATE_MAX_DURATION_MIN == 60
\* float("inf"), the age of a pair with no creation time
inf == 1000000000

\* ------------------------------------------------------------------------
\* Bounds of the model
\* ------------------------------------------------------------------------
\* how many times the clock advances
MaxTicks == 2
\* pin actions are counted up to this number
MaxPins == 2
\* how many times the ingester upserts one token
MaxSeen == 2

\* The clock advances by one tracking duration at a time; it starts at one
\* step, so that 0 stays the "no creation time" value of pairCreatedAt.
TickStep == UPDATE_MAX_DURATION_MIN
StartTime == TickStep
Times == {StartTime + k * TickStep : k \in 0..MaxTicks}

\* ------------------------------------------------------------------------
\* Input domains
\* ------------------------------------------------------------------------
Tokens == {"t1", "t2"}
Chats == {"c1", "c2"}

\* The rows (best pool of a token) the provider returns to the running
\* system, with pairCreatedAt 0 when the pool carries no creation time:
\* two rows that pass the thresholds with different market-caps, one with
\* too little liquidity, one with nothing known yet, one with no creation time
Row(l, mc, v, c) == [liq |-> l, mcap |-> mc, vol |-> v, created |-> c]

Rows ==
  { Row(50000, 80000, 45000, StartTime),
    Row(50000, 120000, 45000, StartTime),
    Row(20000, 80000, 45000, StartTime),
    Row(40000, 0, 0, StartTime),
    Row(50000, 80000, 45000, 0) }

\* "no row": a lookup that returned nothing
NoRow == [liq |-> -1, mcap |-> -1, vol |-> -1, created |-> -1]

\* a missing FIRST_SEEN entry (dict.get -> None)
NoRec == [first |-> -1, ts |-> -1]

\* a token absent from TokenManager.first_seen_data
NoEntry == [first_mcap |-> -1, first_seen |-> -1]

\* no decoration call yet: the last result of each of the two functions
NoDec == [main |-> << >>, deepseek |-> << >>]

\* no baseline created yet
NoHist == [born |-> -1, fill |-> 0]

\* no decorated pair
NoM == [token |-> "", liquidity_usd |-> 0, mcap_usd |-> 0, vol24_usd |-> 0,
        age_min |-> 0, is_first_time |-> FALSE, first_mcap_usd |-> 0]

\* no /trade handler under way
NoTrade == [pc |-> "idle", chat |-> "", pairs |-> << >>, j |-> 0, sent |-> 0,
            cap |-> 0, pin |-> FALSE]

\* ------------------------------------------------------------------------
\* State
\* ------------------------------------------------------------------------
VARIABLES
  now,          \* the wall clock, minutes
  env,          \* the surroundings, fixed at the start: the tokens the
                \* provider lists, the rows it returns, whether writes of
                \* the state files can fail, whether sends can fail
  MIRROR,       \* MIRROR["tokens"]: sequence of [mint, last, seen] in insertion order
  FIRST_SEEN,   \* token -> [first, ts] or NoRec (in memory)
  fsFile,       \* the contents of FIRST_SEEN_FILE
  TRACKED,      \* set of tokens
  LAST_PINNED,  \* [chat -> [token -> message or "none"]]
  SUBS,         \* set of chats
  \* do_trade_push
  dpc, dpairs, dchats, di, dj, dpin,
  \* updater
  upc, unow, utoks, uk, um, uchats, ui,
  \* observation of what the program did (not read by it)
  pins,         \* [chat -> [token -> number of pin_chat_message calls]]
  trackedAt,    \* token -> time it last entered TRACKED, 0 if it never did
  evicted,      \* tokens that were removed from TRACKED at least once
  fireShown,    \* token -> market-cap shown in its first delivered fire alert, 0 if none
  ev,           \* what the last step did: a set of event records
  \* stand-alone calls of the decoration and of the filter
  first_seen_data,  \* TokenManager.first_seen_data (the refactored variant)
  dec,              \* the last result of each of the two decoration functions
  hist,             \* token -> the market-cap its baseline was created with,
                    \* and the first positive market-cap decorated afterwards
  refresh,          \* what the loop of updater did with the last candidate
  cand, verdict,    \* the last candidate given to the filter (the provider's
                    \* row and the alert dict made of it), and the answer
  \* the social resolver (TwitterScraper) and the automatic resolution task
  cache,               \* twitter_scraper.cache: key -> NoCache or [usernames, timestamp]
  successful_service,  \* twitter_scraper.successful_service, NoService for None
  tw_scraped,          \* token -> FIRST_SEEN[token]["tw_scraped"]
  atask,               \* [chat -> [token -> position of its send_auto_scrape_message task]]
  scrape,              \* observation: the last call of scrape_url
  \* the mirror's other half and its file
  MIRROR_pairs,        \* the keys of MIRROR["pairs"]
  mirrorFile,          \* the contents of MIRROR_JSON
  boot,                \* observation: what _mirror_load found at the last start
  \* cmd_trade
  trade,               \* the /trade handler under way: its position and locals
  \* the configured blacklist of handles and the files beside the resolver
  TWITTER_BLACKLIST,   \* the set of handles in memory
  blacklistFile,       \* the lines of TWITTER_BLACKLIST_TXT that are no comments
  cacheFile            \* the contents of TWITTER_CACHE_JSON

vars == << now, env, MIRROR, FIRST_SEEN, fsFile, TRACKED, LAST_PINNED, SUBS,
           dpc, dpairs, dchats, di, dj, dpin,
           upc, unow, utoks, uk, um, uchats, ui,
           pins, trackedAt, evicted, fireShown, ev,
           first_seen_data, dec, hist, cand, verdict, refresh,
           cache, successful_service, tw_scraped, atask, scrape,
           MIRROR_pairs, mirrorFile, boot,
           trade, TWITTER_BLACKLIST, blacklistFile, cacheFile >>

\* ------------------------------------------------------------------------
\* Pure helpers
\* ------------------------------------------------------------------------
Abs(x) == IF x < 0 THEN -x ELSE x

Max(a, b) == IF a >= b THEN a ELSE b

\* a variant of _pair_age_minutes that gives a pair without creation time
\* the age 0
_pair_age_minutes_unknown_0(t, created) ==
  IF created = 0 THEN 0 ELSE Max(0, t - created)

\* _pair_age_minutes(now_ms, created_ms)
_pair_age_minutes(t, created) ==
  IF created = 0 THEN inf ELSE Max(0, t - created)

\* a variant of passes_filters_for_alert that applies the market-cap and
\* volume thresholds only to positive values
passes_filters_only_if_known(m) ==
  /\ ~(m.liquidity_usd < MIN_LIQ_USD)
  /\ ~(m.mcap_usd > 0 /\ m.mcap_usd < MIN_MCAP_USD)
  /\ ~(m.vol24_usd > 0 /\ m.vol24_usd < MIN_VOL_H24_USD)
  /\ ~(m.age_min > MAX_AGE_MIN)

\* passes_filters_for_alert(m)
passes_filters_for_alert(m) ==
  /\ ~(m.liquidity_usd < MIN_LIQ_USD)
  /\ ~(m.mcap_usd < MIN_MCAP_USD)
  /\ ~(m.vol24_usd < MIN_VOL_H24_USD)
  /\ ~(m.age_min > MAX_AGE_MIN)

\* _pct_str(first, cur): the change in tenths of a percent, rounded to the
\* nearest tenth as "{d:.1f}" prints it; NoPct stands for "n/a"
NoPct == [na |-> TRUE, tenths |-> 0]

RoundDiv(a, b) ==
  IF a >= 0 THEN (2 * a + b) \div (2 * b) ELSE -((2 * (-a) + b) \div (2 * b))

_pct_str(first, cur) ==
  IF first > 0 /\ cur >= 0
    THEN [na |-> FALSE, tenths |-> RoundDiv((cur - first) * 1000, first)]
    ELSE NoPct

\* all orders of a finite set, as sequences (list(a_set))
Perms(S) ==
  { s \in [1..Cardinality(S) -> S] : \A i, j \in DOMAIN s : i # j => s[i] # s[j] }

\* the row of one MIRROR entry turned into an alert dict (_pairs_from_mirror body)
RowToM(tok, row, t) ==
  [token |-> tok, liquidity_usd |-> row.liq, mcap_usd |-> row.mcap,
   vol24_usd |-> row.vol, age_min |-> _pair_age_minutes(t, row.created),
   is_first_time |-> FALSE, first_mcap_usd |-> 0]

\* _pairs_from_mirror()
_pairs_from_mirror(mirror, t) ==
  [i \in DOMAIN mirror |-> RowToM(mirror[i].mint, mirror[i].last, t)]

\* sorted(..., key=mcap, reverse=True): stable insertion of x into sorted s
RECURSIVE InsertDesc(_, _)
InsertDesc(s, x) ==
  IF s = << >> THEN << x >>
  ELSE IF Head(s).mcap_usd >= x.mcap_usd
         THEN << Head(s) >> \o InsertDesc(Tail(s), x)
         ELSE << x >> \o s

RECURSIVE SortDesc(_)
SortDesc(s) ==
  IF s = << >> THEN << >>
  ELSE InsertDesc(SortDesc(SubSeq(s, 1, Len(s) - 1)), s[Len(s)])

\* best_per_token(pairs): tokens are unique in the mirror, so the best-per-
\* token map keeps every pair; the result is sorted by market-cap, highest first
best_per_token(pairs) == SortDesc(pairs)

\* ------------------------------------------------------------------------
\* First-seen store
\* ------------------------------------------------------------------------
\* whether a write of a state file succeeds
SaveOutcomes == IF env.disk_fails THEN BOOLEAN ELSE {TRUE}

\* _save_first_seen(d): the file after the call; a failed write is logged
\* and leaves the file as it was
_save_first_seen(d, file, ok) == IF ok THEN d ELSE file

\* _load_first_seen()
_load_first_seen(file) == file

\* a variant of DecorateOne that stores the current market-cap of a known
\* token whatever its baseline
DecorateOne_overwrite(fs, m, t) ==
  IF fs[m.token] = NoRec
    THEN [fs |-> [fs EXCEPT ![m.token] = [first |-> m.mcap_usd, ts |-> t]],
          m |-> [m EXCEPT !.first_mcap_usd = m.mcap_usd, !.is_first_time = TRUE],
          changed |-> TRUE]
    ELSE [fs |-> [fs EXCEPT ![m.token].first = m.mcap_usd],
          m |-> [m EXCEPT !.first_mcap_usd = fs[m.token].first,
                          !.is_first_time = FALSE],
          changed |-> TRUE]

\* a variant of DecorateOne that never fills a zero baseline
DecorateOne_no_backfill(fs, m, t) ==
  IF fs[m.token] = NoRec
    THEN [fs |-> [fs EXCEPT ![m.token] = [first |-> m.mcap_usd, ts |-> t]],
          m |-> [m EXCEPT !.first_mcap_usd = m.mcap_usd, !.is_first_time = TRUE],
          changed |-> TRUE]
    ELSE [fs |-> fs,
          m |-> [m EXCEPT !.first_mcap_usd = fs[m.token].first,
                          !.is_first_time = FALSE],
          changed |-> FALSE]

\* decorate_with_first_seen, the body of the loop for one pair m at time t:
\* the store, the decorated pair, and whether the store changed
DecorateOne(fs, m, t) ==
  LET tok == m.token
      rec == fs[tok]
      is_new == (rec = NoRec)
      cur_mcap == m.mcap_usd
  IN  IF is_new
        THEN [fs |-> [fs EXCEPT ![tok] = [first |-> cur_mcap, ts |-> t]],
              m |-> [m EXCEPT !.first_mcap_usd = cur_mcap, !.is_first_time = TRUE],
              changed |-> TRUE]
        ELSE LET existing_baseline == rec.first
             IN  IF existing_baseline > 0
                   THEN [fs |-> fs,
                         m |-> [m EXCEPT !.first_mcap_usd = existing_baseline,
                                         !.is_first_time = FALSE],
                         changed |-> FALSE]
                   ELSE [fs |-> [fs EXCEPT ![tok].first = cur_mcap],
                         m |-> [m EXCEPT !.first_mcap_usd = existing_baseline,
                                         !.is_first_time = FALSE],
                         changed |-> TRUE]

\* decorate_with_first_seen(pairs) up to the save: pairs 1..n decorated in order
RECURSIVE decorate_with_first_seen(_, _, _, _)
decorate_with_first_seen(fs, pairs, n, t) ==
  IF n = 0 THEN [fs |-> fs, pairs |-> pairs, changed |-> FALSE]
  ELSE LET before == decorate_with_first_seen(fs, pairs, n - 1, t)
           one == DecorateOne(before.fs, before.pairs[n], t)
       IN  [fs |-> one.fs,
            pairs |-> [before.pairs EXCEPT ![n] = one.m],
            changed |-> before.changed \/ one.changed]

\* ------------------------------------------------------------------------
\* Sending
\* ------------------------------------------------------------------------
\* What the transport does to one call of _send_or_photo: <<photo, text>>.
\* photo: the logo loop ("sent": a send_photo with the keyboard went through;
\* "kb_sent"/"kb_raise": the keyboard was rejected and the retry without it
\* went through / raised; "none": no candidate produced a message).
\* text, only after "none": send_message ("sent", "kb_sent", "kb_raise",
\* "bad_request": a BadRequest that is no keyboard reject, such as "Chat not
\* found"; "error": any other exception, such as Forbidden for a chat that
\* blocked the bot).
SendResults ==
  { <<p, "-">> : p \in {"sent", "kb_sent", "kb_raise"} } \cup
  { <<"none", x>> : x \in {"sent", "kb_sent", "kb_raise", "bad_request", "error"} }

\* what the transport of these surroundings can do to a call: anything, or,
\* where every send goes through, the photo with its keyboard
SendOutcomes ==
  IF env.send_fails THEN SendResults ELSE { <<"sent", "-">> }

\* _send_or_photo(..., pin): the message sent ("none": msg_id None), whether
\* pin_chat_message was called, whether an exception left the function, and
\* whether _remove_bad_sub(chat_id) was called
_send_or_photo(o, pin) ==
  IF o[1] = "sent"
    THEN [msg |-> "photo", pinned |-> pin, raised |-> FALSE, remove |-> FALSE]
  ELSE IF o[1] = "kb_sent"
    THEN [msg |-> "photo_nokb", pinned |-> FALSE, raised |-> FALSE, remove |-> FALSE]
  ELSE IF o[1] = "kb_raise"
    THEN [msg |-> "none", pinned |-> FALSE, raised |-> TRUE, remove |-> FALSE]
  ELSE IF o[2] = "sent"
    THEN [msg |-> "text", pinned |-> FALSE, raised |-> FALSE, remove |-> FALSE]
  ELSE IF o[2] = "kb_sent"
    THEN [msg |-> "text_nokb", pinned |-> FALSE, raised |-> FALSE, remove |-> FALSE]
  ELSE IF o[2] = "kb_raise"
    THEN [msg |-> "none", pinned |-> FALSE, raised |-> TRUE, remove |-> FALSE]
  ELSE IF o[2] = "bad_request"
    THEN [msg |-> "none", pinned |-> FALSE, raised |-> FALSE, remove |-> FALSE]
  ELSE [msg |-> "none", pinned |-> FALSE, raised |-> FALSE, remove |-> TRUE]

\* _remove_bad_sub(cid)
_remove_bad_sub(subs, cid) == subs \ {cid}

\* one more pin_chat_message call in chat c for token t
CountPin(p, c, t) ==
  [p EXCEPT ![c][t] = IF @ < MaxPins THEN @ + 1 ELSE @]

\* ------------------------------------------------------------------------
\* Events: what a step did, for the properties
\* ------------------------------------------------------------------------
Event(kind, chat, token, a, b, flag, what) ==
  [kind |-> kind, chat |-> chat, token |-> token, a |-> a, b |-> b,
   flag |-> flag, what |-> what]

\* ------------------------------------------------------------------------
\* Frames
\* ------------------------------------------------------------------------
harness == << first_seen_data, dec, hist, cand, verdict, refresh >>
discLocals == << dpc, dpairs, dchats, di, dj, dpin >>
updLocals == << upc, unow, utoks, uk, um, uchats, ui >>
resolver == << cache, successful_service, tw_scraped, atask, scrape >>
mirrorStore == << MIRROR_pairs, mirrorFile, boot >>
blacklistStore == << TWITTER_BLACKLIST, blacklistFile, cacheFile >>

\* ------------------------------------------------------------------------
\* Clock and ingester
\* ------------------------------------------------------------------------
Tick ==
  /\ now + TickStep \in Times
  /\ now' = now + TickStep
  /\ ev' = {}
  /\ UNCHANGED << env, blacklistStore, trade, mirrorStore, MIRROR, FIRST_SEEN, fsFile, TRACKED, LAST_PINNED, SUBS,
                  discLocals, updLocals, pins, trackedAt, evicted, fireShown,
                  harness, resolver >>

\* MIRROR["tokens"].get(mint): the seen count of the entry, 0 if there is none
SeenOf(mirror, mint) ==
  IF \E i \in DOMAIN mirror : mirror[i].mint = mint
    THEN mirror[CHOOSE i \in DOMAIN mirror : mirror[i].mint = mint].seen
    ELSE 0

\* a variant of mirror_upsert_token that starts the entry afresh on every call
mirror_upsert_token_fresh(mirror, mint, row) ==
  IF \E i \in DOMAIN mirror : mirror[i].mint = mint
    THEN [i \in DOMAIN mirror |->
            IF mirror[i].mint = mint
              THEN [mint |-> mint, last |-> row, seen |-> 1]
              ELSE mirror[i]]
    ELSE Append(mirror, [mint |-> mint, last |-> row, seen |-> 1])

\* mirror_upsert_token(mint, ..., row): t["last"] = row; t["seen"] += 1; the
\* entry keeps its place in the dict
mirror_upsert_token(mirror, mint, row) ==
  IF \E i \in DOMAIN mirror : mirror[i].mint = mint
    THEN [i \in DOMAIN mirror |->
            IF mirror[i].mint = mint
              THEN [mint |-> mint, last |-> row, seen |-> mirror[i].seen + 1]
              ELSE mirror[i]]
    ELSE Append(mirror, [mint |-> mint, last |-> row, seen |-> 0 + 1])

\* MIRROR_JSON: no file, a file that json.loads rejects (tokens and pairs
\* are then what the damaged bytes once held), or what _mirror_save wrote
NoMirrorFile == [state |-> "missing", tokens |-> << >>, pairs |-> {}]

\* a variant of _mirror_load that takes whatever the file once held
_mirror_load_trusting(file) == [tokens |-> file.tokens, pairs |-> file.pairs]

\* _mirror_load: the saved mirror, or the empty one if there is no file or
\* the file cannot be decoded
_mirror_load(file) ==
  IF file.state = "ok"
    THEN [tokens |-> file.tokens, pairs |-> file.pairs]
    ELSE [tokens |-> << >>, pairs |-> {}]

\* how a write of MIRROR_JSON can end: written, not begun, cut short
MirrorSaveOutcomes ==
  IF env.disk_fails THEN { "ok", "unchanged", "truncated" } ELSE { "ok" }

\* _mirror_save(MIRROR): the file after the call
_mirror_save(tokens, pairs, file, outcome) ==
  CASE outcome = "ok" -> [state |-> "ok", tokens |-> tokens, pairs |-> pairs]
    [] outcome = "truncated" -> [file EXCEPT !.state = "corrupt"]
    [] OTHER -> file

\* the pairAddress of the best pool of a token
PairOf(mint) == "pair_" \o mint

\* mirror_upsert_pair, as far as the keys of MIRROR["pairs"] go
mirror_upsert_pair(pairs, pair) == pairs \cup { pair }

\* What the provider can return for a listed token: a profile and its best
\* pool (ok); a profile without tokenAddress (no_mint); no pool (no_pool); a
\* pool whose liquidity is not an object (bad_pool); a profile whose chainId
\* is not a string (bad_chain)
Shapes == { "ok", "no_mint", "no_pool", "bad_pool", "bad_chain" }
Profile(mint, shape, row) == [mint |-> mint, shape |-> shape, row |-> row]

\* the loop `for profile in profiles` of ingester from profile i on: the
\* mirror after it, whether an exception ended it, and the upserts made
RECURSIVE IngestLoop(_, _, _, _, _)
IngestLoop(profiles, i, tokens, pairs, evs) ==
  IF i > Len(profiles)
    THEN [tokens |-> tokens, pairs |-> pairs, raised |-> FALSE, evs |-> evs]
    ELSE LET p == profiles[i]
         IN  IF p.shape = "no_mint" \/ p.shape = "no_pool"
               THEN IngestLoop(profiles, i + 1, tokens, pairs, evs)
             ELSE IF p.shape = "bad_pool"
               THEN \* _best_pool_for_mint raises
                    [tokens |-> tokens, pairs |-> pairs, raised |-> TRUE, evs |-> evs]
             ELSE IngestLoop(profiles, i + 1,
                    mirror_upsert_token(tokens, p.mint, p.row),
                    mirror_upsert_pair(pairs, PairOf(p.mint)),
                    evs \cup {Event("upsert", "", p.mint, SeenOf(tokens, p.mint),
                                    SeenOf(tokens, p.mint) + 1, FALSE, "")})

\* the records of a cycle that are well-formed and carry a pool
WellFormed(profiles) == { i \in DOMAIN profiles : profiles[i].shape = "ok" }

\* ingester: one cycle on the profiles the provider lists (the cycle has no
\* await: it runs in one piece).  _discover_profiles_latest raises on a
\* chainId that is no string; an exception anywhere ends the cycle in its
\* except clause, before _mirror_save.
ingester(profiles) ==
  LET bad_chain == \E i \in DOMAIN profiles : profiles[i].shape = "bad_chain"
      r == IF bad_chain
             THEN [tokens |-> MIRROR, pairs |-> MIRROR_pairs, raised |-> TRUE, evs |-> {}]
             ELSE IngestLoop(profiles, 1, MIRROR, MIRROR_pairs, {})
  IN  /\ \A i \in WellFormed(profiles) : SeenOf(MIRROR, profiles[i].mint) < MaxSeen
      /\ MIRROR' = r.tokens
      /\ MIRROR_pairs' = r.pairs
      /\ \E outcome \in MirrorSaveOutcomes :
           /\ mirrorFile' = IF r.raised THEN mirrorFile
                            ELSE _mirror_save(r.tokens, r.pairs, mirrorFile, outcome)
           /\ ev' = r.evs \cup
                {Event("cycle", "", "", Cardinality(WellFormed(profiles)),
                       Cardinality(r.evs), ~r.raised /\ outcome = "ok",
                       IF r.raised THEN "raise" ELSE "")}
      /\ UNCHANGED << now, env, blacklistStore, trade, FIRST_SEEN, fsFile, TRACKED, LAST_PINNED, SUBS,
                      discLocals, updLocals, pins, trackedAt, evicted, fireShown,
                      harness, resolver, boot >>

\* one cycle in which the provider lists the profile of token t and returns
\* row as its best pool
Ingest(t, row) == ingester(<< Profile(t, "ok", row) >>)

\* ------------------------------------------------------------------------
\* Discovery task: do_trade_push and send_new_token
\* ------------------------------------------------------------------------
\* the except clause of do_trade_push, and the end of its loops
DiscDone ==
  /\ dpc' = "idle"
  /\ dpairs' = << >>
  /\ dchats' = << >>
  /\ di' = 0
  /\ dj' = 0
  /\ dpin' = FALSE

\* a variant of should_pin that asks for a pin on every call
should_pin_always(last_pinned, chat_id, token) == TRUE

\* send_new_token: key not in LAST_PINNED
should_pin(last_pinned, chat_id, token) == last_pinned[chat_id][token] = "none"

\* a variant of should_send_new that announces first-time tokens only
should_send_new_first_only(m, already_tracked) == m.is_first_time

\* do_trade_push: if m.get("is_first_time") or not already_tracked
should_send_new(m, already_tracked) == m.is_first_time \/ ~already_tracked

\* send_new_token up to its first await, for chat chats[i] and pair pairs[j];
\* fs/file are the store and its file as they are when the call starts
SendNewTokenPre(fs, file, pairs, chats, i, j, evs) ==
  LET m == pairs[j]
      token == m.token
      chat_id == chats[i]
      pin == should_pin(LAST_PINNED, chat_id, token)
      cur_mcap == m.mcap_usd
      m2 == [m EXCEPT !.is_first_time = TRUE, !.first_mcap_usd = cur_mcap]
      stored_baseline == IF fs[token] = NoRec THEN 0 ELSE fs[token].first
  IN  IF Abs(stored_baseline - cur_mcap) > 1
        THEN IF fs[token] = NoRec
               THEN \* FIRST_SEEN[token]["first"] = ... raises KeyError
                    /\ DiscDone
                    /\ FIRST_SEEN' = fs
                    /\ fsFile' = file
                    /\ ev' = evs \cup {Event("raise", chat_id, token, 0, 0, FALSE, "KeyError")}
               ELSE \E ok \in SaveOutcomes :
                    /\ FIRST_SEEN' = [fs EXCEPT ![token].first = cur_mcap]
                    /\ fsFile' = _save_first_seen(FIRST_SEEN', file, ok)
                    /\ dpc' = "sending"
                    /\ dpairs' = [pairs EXCEPT ![j] = m2]
                    /\ dchats' = chats
                    /\ di' = i
                    /\ dj' = j
                    /\ dpin' = pin
                    /\ ev' = evs
        ELSE /\ FIRST_SEEN' = fs
             /\ fsFile' = file
             /\ dpc' = "sending"
             /\ dpairs' = [pairs EXCEPT ![j] = m2]
             /\ dchats' = chats
             /\ di' = i
             /\ dj' = j
             /\ dpin' = pin
             /\ ev' = evs

\* One iteration of the loops of do_trade_push, from `for m in pairs` to the
\* next await, for a pair that passes the filter (pairs holds only those:
\* the filter reads nothing that changes during the cycle).
DiscIter(fs, file, pairs, chats, i, j) ==
  IF i > Len(chats) \/ j > Len(pairs)
    THEN /\ DiscDone
         /\ FIRST_SEEN' = fs
         /\ fsFile' = file
         /\ ev' = {}
         /\ UNCHANGED << TRACKED, trackedAt >>
    ELSE LET m == pairs[j]
             already_tracked == m.token \in TRACKED
         IN  /\ TRACKED' = TRACKED \cup {m.token}
             /\ trackedAt' = IF already_tracked THEN trackedAt
                             ELSE [trackedAt EXCEPT ![m.token] = now]
             /\ IF should_send_new(m, already_tracked)
                  THEN SendNewTokenPre(fs, file, pairs, chats, i, j,
                         {Event("fire_call", chats[i], m.token, m.mcap_usd, 0,
                                m.is_first_time, "")})
                  ELSE \* nothing to send: await asyncio.sleep(0.05)
                       /\ FIRST_SEEN' = fs
                       /\ fsFile' = file
                       /\ dpc' = "sleeping"
                       /\ dpairs' = pairs
                       /\ dchats' = chats
                       /\ di' = i
                       /\ dj' = j
                       /\ dpin' = FALSE
                       /\ ev' = {}

\* the pairs of a cycle that pass the filter, in order
RECURSIVE Passing(_)
Passing(pairs) ==
  IF pairs = << >> THEN << >>
  ELSE IF passes_filters_for_alert(Head(pairs))
         THEN << Head(pairs) >> \o Passing(Tail(pairs))
         ELSE Passing(Tail(pairs))

\* do_trade_push from its start to its first await
DiscoveryStart ==
  /\ dpc = "idle"
  /\ LET pairs == best_per_token(_pairs_from_mirror(MIRROR, now))
         d == decorate_with_first_seen(FIRST_SEEN, pairs, Len(pairs), now)
     IN  \E ok \in (IF d.changed THEN SaveOutcomes ELSE {TRUE}) :
         \E chats \in Perms(SUBS) :
           DiscIter(d.fs,
                    IF d.changed THEN _save_first_seen(d.fs, fsFile, ok) ELSE fsFile,
                    Passing(d.pairs), chats, 1, 1)
  /\ UNCHANGED << now, env, blacklistStore, trade, mirrorStore, MIRROR, LAST_PINNED, SUBS, updLocals, pins,
                  evicted, fireShown, harness, resolver >>

\* record.get("tw_scraped", False)
already_scraped(fs, scraped, token) == fs[token] # NoRec /\ scraped[token]

\* a variant of the end of send_new_token that starts the task whatever the
\* record says
StartsTask_always(fs, scraped, token) == TRUE

\* the end of send_new_token: the task is created unless the record says
\* the token was scraped
StartsTask(fs, scraped, token) == ~already_scraped(fs, scraped, token)

\* send_new_token from the await of _send_or_photo to the next await: the
\* message is recorded as the pin and, with the scraper enabled
\* (TWITTER_SCRAPER_ENABLED), the resolution task is created
SendNewTokenPost(enabled) ==
  /\ dpc = "sending"
  /\ \E o \in SendOutcomes :
       LET chat_id == dchats[di]
           m == dpairs[dj]
           r == _send_or_photo(o, dpin)
       IN  /\ SUBS' = IF r.remove THEN _remove_bad_sub(SUBS, chat_id) ELSE SUBS
           /\ pins' = IF r.pinned THEN CountPin(pins, chat_id, m.token) ELSE pins
           /\ IF r.raised
                THEN /\ DiscDone
                     /\ ev' = {Event("raise", chat_id, m.token, 0, 0, FALSE, "send")}
                     /\ UNCHANGED << LAST_PINNED, fireShown, atask >>
                ELSE /\ LAST_PINNED' =
                          IF dpin /\ r.msg # "none"
                            THEN [LAST_PINNED EXCEPT ![chat_id][m.token] = r.msg]
                            ELSE LAST_PINNED
                     /\ fireShown' =
                          IF r.msg # "none" /\ fireShown[m.token] = 0
                            THEN [fireShown EXCEPT ![m.token] = m.first_mcap_usd]
                            ELSE fireShown
                     /\ ev' = IF r.msg # "none"
                                THEN {Event("fire", chat_id, m.token, m.mcap_usd,
                                            m.first_mcap_usd, dpin, r.msg)}
                                ELSE {Event("send_fail", chat_id, m.token, 0, 0,
                                            r.remove, o[2])}
                     /\ atask' =
                          IF enabled /\ StartsTask(FIRST_SEEN, tw_scraped, m.token)
                            THEN [atask EXCEPT ![chat_id][m.token] = "created"]
                            ELSE atask
                     /\ dpc' = "sleeping"
                     /\ UNCHANGED << dpairs, dchats, di, dj, dpin >>
  /\ UNCHANGED << now, env, blacklistStore, trade, mirrorStore, MIRROR, FIRST_SEEN, fsFile, TRACKED, updLocals,
                  trackedAt, evicted, harness, cache, successful_service,
                  tw_scraped, scrape >>

\* the scraper switched off: the alert path alone
DiscoverySent == SendNewTokenPost(FALSE)

\* the scraper switched on
DiscoverySentAuto == SendNewTokenPost(TRUE)

\* do_trade_push from the end of a sleep to the next await
DiscoveryNext ==
  /\ dpc = "sleeping"
  /\ IF dj < Len(dpairs)
       THEN DiscIter(FIRST_SEEN, fsFile, dpairs, dchats, di, dj + 1)
       ELSE DiscIter(FIRST_SEEN, fsFile, dpairs, dchats, di + 1, 1)
  /\ UNCHANGED << now, env, blacklistStore, trade, mirrorStore, MIRROR, LAST_PINNED, SUBS, updLocals, pins,
                  evicted, fireShown, harness, resolver >>

\* ------------------------------------------------------------------------
\* Refresh task: updater and send_price_update
\* ------------------------------------------------------------------------
\* what _best_pool_for_mint returns for a tracked token: a row or nothing
Responses == env.rows \cup {NoRow}

\* the except clause of updater, and the end of its loop
UpdDone ==
  /\ upc' = "idle"
  /\ unow' = 0
  /\ utoks' = << >>
  /\ uk' = 0
  /\ um' = NoM
  /\ uchats' = << >>
  /\ ui' = 0

\* a variant of first_ts that takes the time of the cycle whatever the record
first_ts_now(first_rec, now_ts) == now_ts

\* updater: first_ts = int(first_rec.get("ts", now_ts)), the time the
\* duration rule counts from
first_ts(first_rec, now_ts) ==
  IF first_rec = NoRec THEN now_ts ELSE first_rec.ts

\* a variant of UpdaterWalk that ends the cycle at the first empty lookup
RECURSIVE UpdaterWalk_empty_fatal(_, _, _, _, _, _, _, _, _)
UpdaterWalk_empty_fatal(fs, toks, k, tracked, subs, resp, now_ts, t, exams) ==
  IF k > Len(toks)
    THEN [tracked |-> tracked, k |-> 0, m |-> NoM, exams |-> exams]
    ELSE
      LET token == toks[k]
          first_rec == fs[token]
          cur == resp[token]
          m == [RowToM(token, cur, t) EXCEPT
                  !.first_mcap_usd = IF first_rec = NoRec THEN 0 ELSE first_rec.first,
                  !.is_first_time = FALSE]
          Exam(v) == exams \cup
            {Event("exam", "", token, first_rec.ts, now_ts, token \in tracked, v)}
      IN  IF now_ts - first_ts(first_rec, now_ts) >= UPDATE_MAX_DURATION_MIN
            THEN UpdaterWalk_empty_fatal(fs, toks, k + 1, tracked \ {token}, subs,
                                         resp, now_ts, t, Exam("duration"))
          ELSE IF cur = NoRow
            THEN [tracked |-> tracked, k |-> 0, m |-> NoM, exams |-> Exam("nodata")]
          ELSE IF m.age_min >= MAX_AGE_MIN
            THEN UpdaterWalk_empty_fatal(fs, toks, k + 1, tracked \ {token}, subs,
                                         resp, now_ts, t, Exam("age"))
          ELSE IF passes_filters_for_alert(m) /\ subs # {}
            THEN [tracked |-> tracked, k |-> k, m |-> m, exams |-> Exam("alert")]
          ELSE UpdaterWalk_empty_fatal(fs, toks, k + 1, tracked, subs, resp,
                                       now_ts, t, Exam("filtered"))

\* The loop `for token in list(TRACKED)` of updater from token toks[k] up to
\* the first token for which an alert is to be sent (or the end of the list):
\* no await lies in between.  now_ts is the time the cycle took at its start,
\* t the clock, resp the provider's answers.  Returns the tracking set, the
\* index and alert dict of the token to send for (k = 0: none), and the
\* tokens examined with the verdict on each.
RECURSIVE UpdaterWalk(_, _, _, _, _, _, _, _, _)
UpdaterWalk(fs, toks, k, tracked, subs, resp, now_ts, t, exams) ==
  IF k > Len(toks)
    THEN [tracked |-> tracked, k |-> 0, m |-> NoM, exams |-> exams]
    ELSE
      LET token == toks[k]
          first_rec == fs[token]
          cur == resp[token]
          m == [RowToM(token, cur, t) EXCEPT
                  !.first_mcap_usd = IF first_rec = NoRec THEN 0 ELSE first_rec.first,
                  !.is_first_time = FALSE]
          Exam(v) == exams \cup
            {Event("exam", "", token, first_rec.ts, now_ts, token \in tracked, v)}
      IN  IF now_ts - first_ts(first_rec, now_ts) >= UPDATE_MAX_DURATION_MIN
            THEN UpdaterWalk(fs, toks, k + 1, tracked \ {token}, subs, resp,
                             now_ts, t, Exam("duration"))
          ELSE IF cur = NoRow
            THEN UpdaterWalk(fs, toks, k + 1, tracked, subs, resp, now_ts, t,
                             Exam("nodata"))
          ELSE IF m.age_min >= MAX_AGE_MIN
            THEN UpdaterWalk(fs, toks, k + 1, tracked \ {token}, subs, resp,
                             now_ts, t, Exam("age"))
          ELSE IF passes_filters_for_alert(m) /\ subs # {}
            THEN [tracked |-> tracked, k |-> k, m |-> m, exams |-> Exam("alert")]
          ELSE UpdaterWalk(fs, toks, k + 1, tracked, subs, resp, now_ts, t,
                           Exam("filtered"))

\* send_price_update(bot, chat_id, m) up to its await: the alert dict as it
\* goes into the caption
send_price_update(fs, m) ==
  LET first_rec == fs[m.token]
      saved_baseline == IF first_rec = NoRec THEN 0 ELSE first_rec.first
  IN  [m EXCEPT !.first_mcap_usd = IF saved_baseline > 0 THEN saved_baseline ELSE @,
                !.is_first_time = FALSE]

\* updater from token toks[k] on, until it awaits a send or ends
UpdaterRun(fs, toks, k, now_ts) ==
  \E resp \in [env.listed -> Responses] :
    LET w == UpdaterWalk(fs, toks, k, TRACKED, SUBS, resp, now_ts, now, {})
    IN  /\ TRACKED' = w.tracked
        /\ evicted' = evicted \cup (TRACKED \ w.tracked)
        /\ trackedAt' = trackedAt
        /\ ev' = w.exams
        /\ IF w.k = 0
             THEN UpdDone
             ELSE \E chats \in Perms(SUBS) :
                    /\ upc' = "sending"
                    /\ unow' = now_ts
                    /\ utoks' = toks
                    /\ uk' = w.k
                    /\ um' = send_price_update(fs, w.m)
                    /\ uchats' = chats
                    /\ ui' = 1

\* updater from its start to its first await
UpdaterStart ==
  /\ upc = "idle"
  /\ TRACKED # {}
  /\ FIRST_SEEN' = _load_first_seen(fsFile)
  /\ \E toks \in Perms(TRACKED) : UpdaterRun(FIRST_SEEN', toks, 1, now)
  /\ UNCHANGED << now, env, blacklistStore, trade, mirrorStore, MIRROR, fsFile, LAST_PINNED, SUBS, discLocals,
                  pins, fireShown, harness, resolver >>

\* a variant of RefreshSend that asks for a pin
RefreshSend_pin(o) == _send_or_photo(o, TRUE)

\* send_price_update: await _send_or_photo(..., pin=False)
RefreshSend(o) == _send_or_photo(o, FALSE)

\* send_price_update from the await of _send_or_photo (pin=False) to the sleep
UpdaterSent ==
  /\ upc = "sending"
  /\ \E o \in SendOutcomes :
       LET chat_id == uchats[ui]
           r == RefreshSend(o)
       IN  /\ SUBS' = IF r.remove THEN _remove_bad_sub(SUBS, chat_id) ELSE SUBS
           /\ pins' = IF r.pinned THEN CountPin(pins, chat_id, um.token) ELSE pins
           /\ IF r.raised
                THEN /\ UpdDone
                     /\ ev' = {Event("raise", chat_id, um.token, 0, 0, FALSE, "send")}
                ELSE /\ upc' = "sleeping"
                     /\ ev' = IF r.msg # "none"
                                THEN {Event("ice", chat_id, um.token, um.mcap_usd,
                                            um.first_mcap_usd, FALSE, "")}
                                ELSE {Event("send_fail", chat_id, um.token, 0, 0,
                                            r.remove, o[2])}
                     /\ UNCHANGED << unow, utoks, uk, um, uchats, ui >>
  /\ UNCHANGED << now, env, blacklistStore, trade, mirrorStore, MIRROR, FIRST_SEEN, fsFile, TRACKED, LAST_PINNED,
                  discLocals, trackedAt, evicted, fireShown, harness, resolver >>

\* updater from the end of the sleep to the next await
UpdaterNext ==
  /\ upc = "sleeping"
  /\ IF ui < Len(uchats)
       THEN /\ upc' = "sending"
            /\ ui' = ui + 1
            /\ um' = send_price_update(FIRST_SEEN, um)
            /\ ev' = {}
            /\ UNCHANGED << unow, utoks, uk, uchats, TRACKED, trackedAt, evicted >>
       ELSE UpdaterRun(FIRST_SEEN, utoks, uk + 1, unow)
  /\ UNCHANGED << now, env, blacklistStore, trade, mirrorStore, MIRROR, FIRST_SEEN, fsFile, LAST_PINNED, SUBS,
                  discLocals, pins, fireShown, harness, resolver >>

\* ------------------------------------------------------------------------
\* The social resolver (TwitterScraper) and the automatic resolution task
\* ------------------------------------------------------------------------
\* get_cached_usernames: an entry is served while its age is below this
CACHE_MAX_AGE_SEC == 3600
TWITTER_MAX_USERNAMES == 200

\* the resolver's clock advances by half a freshness window, in minutes
CacheStep == (CACHE_MAX_AGE_SEC \div 60) \div 2
ResolverEnd == StartTime + MaxTicks * CacheStep

\* READER_SERVICES, by name; NoService is successful_service = None
READER_SERVICES == << "Jina", "Txtify", "12ft" >>
Services == { READER_SERVICES[i] : i \in DOMAIN READER_SERVICES }
NoService == "none"

\* The reference the tokens carry as tw_url: a list
ListUrl == "https://x.com/i/lists/7"
Urls == { ListUrl }

\* URLVariantGenerator.generate: the two hosts of a list; any other
\* reference of the model is its own single variant
generate(url) ==
  IF url = ListUrl
    THEN << "https://x.com/i/lists/7", "https://twitter.com/i/lists/7" >>
    ELSE << url >>

Variants == UNION { { generate(u)[i] : i \in DOMAIN generate(u) } : u \in Urls }

\* _get_cache_key: a list reference is no community, and the profile pattern
\* finds "x.com/i" in it
_get_cache_key(url) == IF url = ListUrl THEN "profile_i" ELSE url

CacheKeys == { _get_cache_key(u) : u \in Urls }

\* a key absent from the cache
NoCache == [usernames |-> {}, timestamp |-> -1]

\* What a proxy can deliver for a variant: a response that is no content
\* (status other than 200, or 500 characters at most), or a page
NoContent == "short"
Pages == { NoContent, "pageA", "pageB", "pageX", "pageBig" }

\* as many handles as TWITTER_MAX_USERNAMES allows
CapHandles == { ToString(n) : n \in 1..TWITTER_MAX_USERNAMES }

\* the names the username patterns find in a page
Mentions(text) ==
  CASE text = "pageA" -> { "alice", "home" }
    [] text = "pageB" -> { "bob" }
    [] text = "pageX" -> { "home" }
    [] text = "pageBig" -> CapHandles
    [] OTHER -> {}

\* TwitterPatternMatcher.blacklist (the part the pages touch)
HardBlacklist == { "home", "twitter", "x", "i" }

\* extract_usernames: the names found that are in neither the hard-coded
\* blacklist nor the configured one as it is when the call is made
extract_usernames(text) ==
  { u \in Mentions(text) : u \notin (HardBlacklist \cup TWITTER_BLACKLIST) }

\* what the variants of the list can show: the x.com one page A or a page
\* with no handle, the twitter.com one page B, a page with no handle, or
\* no content
PagesOf(v) ==
  IF v = generate(ListUrl)[1] THEN { "pageA", "pageX" }
  ELSE { NoContent, "pageB", "pageX" }

\* which proxies answer during one call: none, one of them, or all
UpPatterns ==
  { up \in [Services -> BOOLEAN] :
      Cardinality({ s \in Services : up[s] }) \in { 0, 1, Len(READER_SERVICES) } }

\* The network during one call: which proxies answer, and what the
\* answering proxies deliver for each variant
Nets ==
  { n \in [up : UpPatterns, page : [Variants -> Pages]] :
      \A v \in Variants : n.page[v] \in PagesOf(v) }

\* what the variants of the list can show when the list is long: the
\* x.com one page A or a page that mentions as many handles as
\* TWITTER_MAX_USERNAMES allows, the twitter.com one page B, that large
\* page, or no content
WidePagesOf(v) ==
  IF v = generate(ListUrl)[1] THEN { "pageA", "pageBig" }
  ELSE { NoContent, "pageB", "pageBig" }

\* the networks of a call for a long list
WideNets ==
  { n \in [up : UpPatterns, page : [Variants -> Pages]] :
      \A v \in Variants : n.page[v] \in WidePagesOf(v) }

\* _try_service: the text of a 200 response of more than 500 characters,
\* None (NoContent) for anything else, exceptions included
_try_service(url, service, net) ==
  IF net.up[service] THEN net.page[url] ELSE NoContent

\* the rotation of _fetch_readable from index i on (1-based; preferred 0 is
\* None); tried is the sequence of proxies attempted so far
RECURSIVE Rotate(_, _, _, _, _, _)
Rotate(url, preferred_service, succ, net, i, tried) ==
  IF i > Len(READER_SERVICES)
    THEN [content |-> NoContent, successful_service |-> succ, tried |-> tried]
    ELSE IF preferred_service = i
      THEN Rotate(url, preferred_service, succ, net, i + 1, tried)
      ELSE LET service == READER_SERVICES[i]
               result == _try_service(url, service, net)
           IN  IF result # NoContent
                 THEN [content |-> result, successful_service |-> service,
                       tried |-> Append(tried, service)]
                 ELSE Rotate(url, preferred_service, succ, net, i + 1,
                             Append(tried, service))

\* a variant of _fetch_readable that goes straight to the rotation
_fetch_readable_no_affinity(url, preferred_service, succ, net) ==
  Rotate(url, preferred_service, succ, net, 1, << >>)

\* _fetch_readable: the preferred proxy if one is passed, then the last
\* successful one, then every configured proxy but the preferred one
_fetch_readable(url, preferred_service, succ, net) ==
  LET has_pref == preferred_service \in DOMAIN READER_SERVICES
      pref == IF has_pref THEN READER_SERVICES[preferred_service] ELSE NoService
      r1 == IF has_pref THEN _try_service(url, pref, net) ELSE NoContent
      t1 == IF has_pref THEN << pref >> ELSE << >>
      r2 == IF succ # NoService THEN _try_service(url, succ, net) ELSE NoContent
      t2 == IF succ # NoService THEN Append(t1, succ) ELSE t1
  IN  IF r1 # NoContent
        THEN [content |-> r1, successful_service |-> pref, tried |-> t1]
        ELSE IF r2 # NoContent
          THEN [content |-> r2, successful_service |-> succ, tried |-> t2]
          ELSE Rotate(url, preferred_service, succ, net, 1, t2)

\* a variant of get_cached_usernames that serves an entry whatever its age
get_cached_usernames_any_age(c, url, t) ==
  IF c[_get_cache_key(url)] # NoCache
    THEN [hit |-> TRUE, usernames |-> c[_get_cache_key(url)].usernames]
    ELSE [hit |-> FALSE, usernames |-> {}]

\* get_cached_usernames at time t (minutes; the timestamps are seconds in
\* the program)
get_cached_usernames(c, url, t) ==
  LET cached == c[_get_cache_key(url)]
  IN  IF cached # NoCache /\ (t - cached.timestamp) * 60 < CACHE_MAX_AGE_SEC
        THEN [hit |-> TRUE, usernames |-> cached.usernames]
        ELSE [hit |-> FALSE, usernames |-> {}]

\* the attempts of one fetch, as entries of the log of a call: the variant,
\* the last successful proxy recorded when the fetch started, the proxy
\* tried, and what it delivered
Attempts(i, f, succ) ==
  [k \in DOMAIN f.tried |->
     [variant |-> i, hint |-> succ, service |-> f.tried[k],
      content |-> IF k = Len(f.tried) THEN f.content ELSE NoContent]]

\* a variant of the loop of scrape_url that goes on to the next variant
\* however many handles it has
RECURSIVE ScrapeVariants_no_cap(_, _, _, _, _, _, _)
ScrapeVariants_no_cap(variants, i, all_usernames, succ, preferred_service, net, log) ==
  IF i > Len(variants)
    THEN [usernames |-> all_usernames, successful_service |-> succ, log |-> log]
    ELSE LET f == _fetch_readable(variants[i], preferred_service, succ, net)
             all == IF f.content # NoContent
                      THEN all_usernames \cup extract_usernames(f.content)
                      ELSE all_usernames
         IN  ScrapeVariants_no_cap(variants, i + 1, all, f.successful_service,
                                   preferred_service, net, log \o Attempts(i, f, succ))

\* the loop of scrape_url over the variants, from variant i on
RECURSIVE ScrapeVariants(_, _, _, _, _, _, _)
ScrapeVariants(variants, i, all_usernames, succ, preferred_service, net, log) ==
  IF i > Len(variants)
    THEN [usernames |-> all_usernames, successful_service |-> succ, log |-> log]
    ELSE LET f == _fetch_readable(variants[i], preferred_service, succ, net)
             all == IF f.content # NoContent
                      THEN all_usernames \cup extract_usernames(f.content)
                      ELSE all_usernames
             log2 == log \o Attempts(i, f, succ)
         IN  IF f.content # NoContent /\ Cardinality(all) >= TWITTER_MAX_USERNAMES
               THEN [usernames |-> all, successful_service |-> f.successful_service,
                     log |-> log2]
               ELSE ScrapeVariants(variants, i + 1, all, f.successful_service,
                                   preferred_service, net, log2)

\* the end of scrape_url: what the cache holds after a run found the set
\* usernames; this variant stores the empty set too
StoreResult_also_empty(c, url, usernames, t) ==
  [c EXCEPT ![_get_cache_key(url)] = [usernames |-> usernames, timestamp |-> t]]

\* a variant of the end of scrape_url that stores nothing
StoreResult_never(c, url, usernames, t) == c

\* the end of scrape_url: a set that is not empty is stored under the key
\* of the reference with the time of the call
StoreResult(c, url, usernames, t) ==
  IF usernames # {}
    THEN [c EXCEPT ![_get_cache_key(url)] = [usernames |-> usernames, timestamp |-> t]]
    ELSE c

\* scrape_url(url, use_cache, preferred_service) at time t (the scraper is
\* enabled and the reference is not empty): the cache and the last
\* successful proxy after the call, the set returned, and the attempts made
scrape_url(c, succ, url, use_cache, preferred_service, net, t) ==
  LET cached == get_cached_usernames(c, url, t)
      run == ScrapeVariants(generate(url), 1, {}, succ, preferred_service, net, << >>)
  IN  IF use_cache /\ cached.hit
        THEN [cache |-> c, successful_service |-> succ,
              usernames |-> cached.usernames, hit |-> TRUE, log |-> << >>]
        ELSE [cache |-> StoreResult(c, url, run.usernames, t),
              successful_service |-> run.successful_service,
              usernames |-> run.usernames, hit |-> FALSE, log |-> run.log]

\* ------------------------------------------------------------------------
\* Calls of the resolver
\* ------------------------------------------------------------------------
\* the environment of a call in which the first two configured proxies fail
\* and the third delivers content for every variant
ThirdOnly(net) ==
  /\ ~net.up[READER_SERVICES[1]]
  /\ ~net.up[READER_SERVICES[2]]
  /\ net.up[READER_SERVICES[3]]
  /\ \A v \in Variants : net.page[v] # NoContent

NoPrev == [called |-> FALSE, third |-> FALSE, empty |-> FALSE, fresh |-> FALSE,
           same |-> FALSE]

NoScrape ==
  [use_cache |-> FALSE, had |-> "none", at |-> 0,
   hit |-> FALSE, result |-> {}, log |-> << >>, third |-> FALSE,
   prev |-> NoPrev]

\* the entry of the reference when a call starts
EntryState(c, url, t) ==
  IF c[_get_cache_key(url)] = NoCache THEN "none"
  ELSE IF get_cached_usernames(c, url, t).hit THEN "fresh" ELSE "stale"

\* The record of a call of scrape_url for ListUrl (at is 0 as long as
\* there was none): the entry found, the time, the outcome r, what the
\* network was like, and how the call relates to the call before it (last)
Observed(url, use_cache, c, net, r, t, last) ==
  [use_cache |-> use_cache,
   had |-> EntryState(c, url, t), at |-> t,
   hit |-> r.hit, result |-> r.usernames, log |-> r.log,
   third |-> (~r.hit /\ ThirdOnly(net)),
   prev |-> IF last.at = 0 THEN NoPrev
            ELSE [called |-> TRUE, third |-> last.third,
                  empty |-> (last.result = {}),
                  fresh |-> ((t - last.at) * 60 < CACHE_MAX_AGE_SEC),
                  same |-> (r.usernames = last.result)]]

\* the networks a call can meet; a call served from the cache meets none,
\* and one stands for all
NetsFor(c, url, use_cache, t) ==
  IF use_cache /\ get_cached_usernames(c, url, t).hit
    THEN { CHOOSE n \in Nets : TRUE }
    ELSE Nets

ResolverTick ==
  /\ now + CacheStep <= ResolverEnd
  /\ now' = now + CacheStep
  /\ ev' = {}
  /\ UNCHANGED << env, blacklistStore, trade, mirrorStore, MIRROR, FIRST_SEEN, fsFile, TRACKED, LAST_PINNED, SUBS,
                  discLocals, updLocals, pins, trackedAt, evicted, fireShown,
                  harness, resolver >>

\* _save_cache: the file holds the cache after a write that went through
_save_cache(c, file, ok) == IF ok THEN c ELSE file

\* _load_cache: the entries of the file
_load_cache(file) == file

\* scrape_url calls _save_cache when a run (no cache hit) found handles
SavesCache(r) == ~r.hit /\ r.usernames # {}

\* one call twitter_scraper.scrape_url(url, use_cache, preferred_service)
\* in one of the networks nets (preferred_service 0 is None, and i is the
\* program's index i - 1)
ScrapeWith(nets, url, use_cache, preferred_service) ==
  \E net \in nets :
    LET r == scrape_url(cache, successful_service, url, use_cache,
                        preferred_service, net, now)
    IN  /\ cache' = r.cache
        /\ \E ok \in (IF SavesCache(r) THEN SaveOutcomes ELSE {FALSE}) :
             cacheFile' = _save_cache(r.cache, cacheFile, ok)
        /\ successful_service' = r.successful_service
        /\ scrape' = Observed(url, use_cache, cache, net, r, now, scrape)
        /\ ev' = {}
        /\ UNCHANGED << now, env, TWITTER_BLACKLIST, blacklistFile, trade, mirrorStore, MIRROR, FIRST_SEEN, fsFile, TRACKED, LAST_PINNED,
                        SUBS, discLocals, updLocals, pins, trackedAt, evicted,
                        fireShown, harness, tw_scraped, atask >>

\* one call twitter_scraper.scrape_url(url, use_cache) with no preferred
\* proxy, as the callers in the bot make it
Scrape(url, use_cache) ==
  ScrapeWith(NetsFor(cache, url, use_cache, now), url, use_cache, 0)

\* ------------------------------------------------------------------------
\* Commands
\* ------------------------------------------------------------------------
\* cmd_resettoken for a token that has a record: the record is deleted from
\* FIRST_SEEN (with it its tw_scraped mark) and the store is saved; TRACKED
\* and LAST_PINNED are not touched.  For a token without a record the
\* command only replies.
cmd_resettoken(token) ==
  /\ FIRST_SEEN[token] # NoRec
  /\ FIRST_SEEN' = [FIRST_SEEN EXCEPT ![token] = NoRec]
  /\ \E ok \in SaveOutcomes : fsFile' = _save_first_seen(FIRST_SEEN', fsFile, ok)
  /\ tw_scraped' = [tw_scraped EXCEPT ![token] = FALSE]
  /\ ev' = {Event("reset", "", token, FIRST_SEEN[token].first, 0,
                  token \in TRACKED, "")}
  /\ UNCHANGED << now, env, blacklistStore, trade, mirrorStore, MIRROR, TRACKED, LAST_PINNED, SUBS,
                  discLocals, updLocals, pins, trackedAt, evicted, fireShown,
                  harness, cache, successful_service, atask, scrape >>

\* the /trade handler ends: its loop is over, it broke out of it at the
\* cap, or an exception left it
TradeDone == trade' = NoTrade

\* the default of cap in cmd_trade when TOP_N_PER_TICK is 0
DefaultTradeCap == 10

\* cap: max(1, int(args[1])) for a number given with the command, and the
\* default without one
TradeCaps == {1, DefaultTradeCap}

\* cmd_trade calls send_new_token(c.bot, chat, m) for pairs[j]: the function
\* up to its first await, with the pin decision taken before the await
TradeSendNewPre(fs, file, h, j) ==
  LET m == h.pairs[j]
      token == m.token
      pin == should_pin(LAST_PINNED, h.chat, token)
      cur_mcap == m.mcap_usd
      m2 == [m EXCEPT !.is_first_time = TRUE, !.first_mcap_usd = cur_mcap]
      stored_baseline == IF fs[token] = NoRec THEN 0 ELSE fs[token].first
      going == [h EXCEPT !.pc = "new", !.j = j, !.pin = pin,
                         !.pairs = [h.pairs EXCEPT ![j] = m2]]
      call == Event("fire_call", h.chat, token, m.mcap_usd, 0, m.is_first_time, "trade")
  IN  IF Abs(stored_baseline - cur_mcap) > 1
        THEN IF fs[token] = NoRec
               THEN \* FIRST_SEEN[token]["first"] = ... raises KeyError
                    /\ TradeDone
                    /\ FIRST_SEEN' = fs
                    /\ fsFile' = file
                    /\ ev' = {call, Event("raise", h.chat, token, 0, 0, FALSE, "KeyError")}
               ELSE \E ok \in SaveOutcomes :
                    /\ FIRST_SEEN' = [fs EXCEPT ![token].first = cur_mcap]
                    /\ fsFile' = _save_first_seen(FIRST_SEEN', file, ok)
                    /\ trade' = going
                    /\ ev' = {call}
        ELSE /\ FIRST_SEEN' = fs
             /\ fsFile' = file
             /\ trade' = going
             /\ ev' = {call}

\* One iteration of the loop of cmd_trade, from `for m in pairs` to the next
\* await, for a pair that passes the filter (h.pairs holds only those); with
\* no pair left the handler ends, after the reply "no matches" if it sent
\* nothing
TradeIter(fs, file, h, j) ==
  IF j > Len(h.pairs)
    THEN /\ TradeDone
         /\ FIRST_SEEN' = fs
         /\ fsFile' = file
         /\ ev' = IF h.sent = 0
                    THEN {Event("reply", h.chat, "", 0, 0, FALSE, "no matches")}
                    ELSE {}
         /\ UNCHANGED << TRACKED, trackedAt >>
    ELSE LET m == h.pairs[j]
         IN  /\ TRACKED' = TRACKED \cup {m.token}
             /\ trackedAt' = IF m.token \in TRACKED THEN trackedAt
                             ELSE [trackedAt EXCEPT ![m.token] = now]
             /\ IF m.is_first_time
                  THEN TradeSendNewPre(fs, file, h, j)
                  ELSE /\ FIRST_SEEN' = fs
                       /\ fsFile' = file
                       /\ trade' = [h EXCEPT !.pc = "update", !.j = j, !.pin = FALSE,
                                             !.pairs = [h.pairs EXCEPT ![j] =
                                                          send_price_update(fs, m)]]
                       /\ ev' = {}

\* cmd_trade from its start to its first await (or to its end): the command
\* comes from any chat, with or without a number
cmd_trade(chat, cap) ==
  /\ trade.pc = "idle"
  /\ LET pairs == best_per_token(_pairs_from_mirror(MIRROR, now))
         d == decorate_with_first_seen(FIRST_SEEN, pairs, Len(pairs), now)
     IN  \E ok \in (IF d.changed THEN SaveOutcomes ELSE {TRUE}) :
           TradeIter(d.fs,
                     IF d.changed THEN _save_first_seen(d.fs, fsFile, ok) ELSE fsFile,
                     [pc |-> "idle", chat |-> chat, pairs |-> Passing(d.pairs),
                      j |-> 0, sent |-> 0, cap |-> cap, pin |-> FALSE],
                     1)
  /\ UNCHANGED << now, env, blacklistStore, mirrorStore, MIRROR, LAST_PINNED, SUBS, discLocals,
                  updLocals, pins, evicted, fireShown, harness, resolver >>

\* cmd_trade after a send returned: sent += 1, and the break at the cap or
\* the sleep
TradeCounted(h) ==
  IF h.sent + 1 >= h.cap
    THEN NoTrade
    ELSE [h EXCEPT !.pc = "sleeping", !.sent = h.sent + 1]

\* send_new_token called by cmd_trade, from the await of _send_or_photo to
\* the next await of the handler
TradeSentNew(enabled) ==
  /\ trade.pc = "new"
  /\ \E o \in SendOutcomes :
       LET chat_id == trade.chat
           m == trade.pairs[trade.j]
           r == _send_or_photo(o, trade.pin)
       IN  /\ SUBS' = IF r.remove THEN _remove_bad_sub(SUBS, chat_id) ELSE SUBS
           /\ pins' = IF r.pinned THEN CountPin(pins, chat_id, m.token) ELSE pins
           /\ IF r.raised
                THEN /\ TradeDone
                     /\ ev' = {Event("raise", chat_id, m.token, 0, 0, FALSE, "send")}
                     /\ UNCHANGED << LAST_PINNED, fireShown, atask >>
                ELSE /\ LAST_PINNED' =
                          IF trade.pin /\ r.msg # "none"
                            THEN [LAST_PINNED EXCEPT ![chat_id][m.token] = r.msg]
                            ELSE LAST_PINNED
                     /\ fireShown' =
                          IF r.msg # "none" /\ fireShown[m.token] = 0
                            THEN [fireShown EXCEPT ![m.token] = m.first_mcap_usd]
                            ELSE fireShown
                     /\ ev' = IF r.msg # "none"
                                THEN {Event("fire", chat_id, m.token, m.mcap_usd,
                                            m.first_mcap_usd, trade.pin, r.msg)}
                                ELSE {Event("send_fail", chat_id, m.token, 0, 0,
                                            r.remove, o[2])}
                     /\ atask' =
                          IF enabled /\ StartsTask(FIRST_SEEN, tw_scraped, m.token)
                            THEN [atask EXCEPT ![chat_id][m.token] = "created"]
                            ELSE atask
                     /\ trade' = TradeCounted(trade)
  /\ UNCHANGED << now, env, blacklistStore, mirrorStore, MIRROR, FIRST_SEEN, fsFile, TRACKED,
                  discLocals, updLocals, trackedAt, evicted, harness, cache,
                  successful_service, tw_scraped, scrape >>

\* the handler with the scraper switched off
TradeSent == TradeSentNew(FALSE)

\* send_price_update called by cmd_trade, from the await of _send_or_photo
\* (pin=False) to the next await of the handler
TradeSentUpdate ==
  /\ trade.pc = "update"
  /\ \E o \in SendOutcomes :
       LET chat_id == trade.chat
           m == trade.pairs[trade.j]
           r == RefreshSend(o)
       IN  /\ SUBS' = IF r.remove THEN _remove_bad_sub(SUBS, chat_id) ELSE SUBS
           /\ pins' = IF r.pinned THEN CountPin(pins, chat_id, m.token) ELSE pins
           /\ IF r.raised
                THEN /\ TradeDone
                     /\ ev' = {Event("raise", chat_id, m.token, 0, 0, FALSE, "send")}
                ELSE /\ trade' = TradeCounted(trade)
                     /\ ev' = IF r.msg # "none"
                                THEN {Event("ice", chat_id, m.token, m.mcap_usd,
                                            m.first_mcap_usd, FALSE, "trade")}
                                ELSE {Event("send_fail", chat_id, m.token, 0, 0,
                                            r.remove, o[2])}
  /\ UNCHANGED << now, env, blacklistStore, mirrorStore, MIRROR, FIRST_SEEN, fsFile, TRACKED,
                  LAST_PINNED, discLocals, updLocals, trackedAt, evicted, fireShown,
                  harness, resolver >>

\* cmd_trade from the end of its sleep to the next await
TradeNext ==
  /\ trade.pc = "sleeping"
  /\ TradeIter(FIRST_SEEN, fsFile, trade, trade.j + 1)
  /\ UNCHANGED << now, env, blacklistStore, mirrorStore, MIRROR, LAST_PINNED, SUBS, discLocals,
                  updLocals, pins, evicted, fireShown, harness, resolver >>

\* what can follow "/blacklist add" and "/blacklist remove" in a message
BlacklistArgs == { "alice", "@@alice" }

\* _normalize_handle for the arguments above: surrounding blanks and one
\* leading "@" are removed, the rest is put in lower case
_normalize_handle(s) ==
  CASE s = "@@alice" -> "@alice"
    [] s = "@alice" -> "alice"
    [] OTHER -> s

\* load_twitter_blacklist: every line of the file that is no comment, put
\* through _normalize_handle
load_twitter_blacklist(file) == { _normalize_handle(line) : line \in file }

\* _save_blacklist_to_file: the handles, one per line, if the write goes
\* through
_save_blacklist_to_file(blacklist, file, ok) == IF ok THEN blacklist ELSE file

\* cmd_blacklist after it changed the set: the file is written, the cache
\* is cleared in memory and written
BlacklistChanged(blacklist, what) ==
  /\ TWITTER_BLACKLIST' = blacklist
  /\ \E ok \in SaveOutcomes :
       blacklistFile' = _save_blacklist_to_file(blacklist, blacklistFile, ok)
  /\ cache' = [k \in CacheKeys |-> NoCache]
  /\ \E ok \in SaveOutcomes : cacheFile' = _save_cache(cache', cacheFile, ok)
  /\ ev' = {Event("blacklist", "", "", Cardinality(TWITTER_BLACKLIST),
                  Cardinality(blacklist), FALSE, what)}
  /\ UNCHANGED << now, env, trade, mirrorStore, MIRROR, FIRST_SEEN, fsFile, TRACKED,
                  LAST_PINNED, SUBS, discLocals, updLocals, pins, trackedAt,
                  evicted, fireShown, harness, successful_service, tw_scraped,
                  atask, scrape >>

\* cmd_blacklist with "add", "remove" or "clear" where the command changes
\* the set (otherwise it only replies)
cmd_blacklist(command, arg) ==
  LET username == _normalize_handle(arg)
  IN  CASE command = "add" ->
             /\ username \notin TWITTER_BLACKLIST
             /\ BlacklistChanged(TWITTER_BLACKLIST \cup {username}, command)
        [] command = "remove" ->
             /\ username \in TWITTER_BLACKLIST
             /\ BlacklistChanged(TWITTER_BLACKLIST \ {username}, command)
        [] command = "clear" ->
             /\ TWITTER_BLACKLIST # {}
             /\ BlacklistChanged({}, command)

\* cmd_unsub: the chat is discarded from SUBS and the subscriber file is
\* written; the lists of chats that the running cycles took from SUBS when
\* they started (list(SUBS)) are not touched
cmd_unsub(chat) ==
  /\ SUBS' = SUBS \ {chat}
  /\ ev' = {Event("unsub", chat, "", 0, 0, chat \in SUBS, "")}
  /\ UNCHANGED << now, env, blacklistStore, trade, mirrorStore, MIRROR, FIRST_SEEN, fsFile, TRACKED,
                  LAST_PINNED, discLocals, updLocals, pins, trackedAt, evicted,
                  fireShown, harness, resolver >>

\* ------------------------------------------------------------------------
\* Start of the process, and damage to the mirror file
\* ------------------------------------------------------------------------
\* _startup (and the module level before it): the stores are loaded from
\* their files (TwitterScraper() loads the cache, load_twitter_blacklist the
\* configured blacklist), everything else starts empty and no task is under
\* way.  The subscriber file is taken to hold what SUBS held.
Startup ==
  LET loaded == _mirror_load(mirrorFile)
  IN  /\ MIRROR' = loaded.tokens
      /\ MIRROR_pairs' = loaded.pairs
      /\ boot' = mirrorFile.state
      /\ FIRST_SEEN' = _load_first_seen(fsFile)
      /\ TRACKED' = {}
      /\ evicted' = evicted \cup TRACKED
      /\ LAST_PINNED' = [c \in Chats |-> [tk \in Tokens |-> "none"]]
      /\ DiscDone
      /\ UpdDone
      /\ successful_service' = NoService
      /\ atask' = [c \in Chats |-> [tk \in Tokens |-> "none"]]
      /\ ev' = {Event("startup", "", "", Len(mirrorFile.tokens), Len(loaded.tokens),
                      FALSE, mirrorFile.state)}
      /\ trade' = NoTrade
      /\ cache' = _load_cache(cacheFile)
      /\ TWITTER_BLACKLIST' = load_twitter_blacklist(blacklistFile)
      /\ UNCHANGED << now, env, blacklistFile, cacheFile, fsFile, SUBS, pins,
                      trackedAt, fireShown, harness, tw_scraped, scrape,
                      mirrorFile >>

\* the file of the mirror is lost, or damaged so that it cannot be decoded
DamageStorage ==
  /\ \E f \in { NoMirrorFile, [mirrorFile EXCEPT !.state = "corrupt"] } :
       /\ f # mirrorFile
       /\ mirrorFile' = f
  /\ ev' = {}
  /\ UNCHANGED << now, env, blacklistStore, trade, MIRROR, FIRST_SEEN, fsFile, TRACKED, LAST_PINNED, SUBS,
                  discLocals, updLocals, pins, trackedAt, evicted, fireShown,
                  harness, resolver, MIRROR_pairs, boot >>

\* a call of the resolver by any caller
ScrapeCall == \E url \in Urls, use_cache \in BOOLEAN : Scrape(url, use_cache)

\* the /scrape command: the resolver is called with the cache disabled
cmd_scrape == \E url \in Urls : Scrape(url, FALSE)

\* the reference a token carries (m["tw_url"])
TwUrl(token) == ListUrl

\* FIRST_SEEN[token]["tw_scraped"] = True, if the token has a record
MarkScraped(fs, scraped, token) ==
  IF fs[token] # NoRec THEN [scraped EXCEPT ![token] = TRUE] ELSE scraped

\* The end of send_new_token for an alert just sent to chat_id: the
\* resolution task is created, or not
AutoTrigger(chat_id, token) ==
  /\ atask[chat_id][token] = "none"
  /\ IF StartsTask(FIRST_SEEN, tw_scraped, token)
       THEN atask' = [atask EXCEPT ![chat_id][token] = "created"]
       ELSE atask' = atask
  /\ ev' = {}
  /\ UNCHANGED << now, env, blacklistStore, trade, mirrorStore, MIRROR, FIRST_SEEN, fsFile, TRACKED, LAST_PINNED,
                  SUBS, discLocals, updLocals, pins, trackedAt, evicted,
                  fireShown, harness, cache, successful_service, tw_scraped,
                  scrape >>

\* send_auto_scrape_message up to its first await: the second look at the
\* record, then the "Scraping..." message is sent
AutoTaskBegin(chat_id, token) ==
  /\ atask[chat_id][token] = "created"
  /\ atask' = [atask EXCEPT ![chat_id][token] =
                 IF already_scraped(FIRST_SEEN, tw_scraped, token)
                   THEN "none" ELSE "sending"]
  /\ ev' = {}
  /\ UNCHANGED << now, env, blacklistStore, trade, mirrorStore, MIRROR, FIRST_SEEN, fsFile, TRACKED, LAST_PINNED,
                  SUBS, discLocals, updLocals, pins, trackedAt, evicted,
                  fireShown, harness, cache, successful_service, tw_scraped,
                  scrape >>

\* a variant of TaskStore that puts a record of the resolver's fields alone
\* in the place of the token's record
TaskStore_replace(fs, token) == [fs EXCEPT ![token] = NoRec]

\* send_auto_scrape_message: `if token in FIRST_SEEN:` the fields tw_overlap
\* and tw_scraped of the record are set (kept in tw_scraped here); first and
\* ts stay, and no record is made for a token that has none
TaskStore(fs, token) ==
  IF fs[token] # NoRec
    THEN [fs EXCEPT ![token] = [first |-> fs[token].first, ts |-> fs[token].ts]]
    ELSE fs

\* send_auto_scrape_message from its first await on: if the message was
\* sent, the reference is resolved with the cache enabled; whatever the
\* outcome (handles, none, an exception) the record is marked and saved
AutoTaskScrape(chat_id, token) ==
  /\ atask[chat_id][token] = "sending"
  /\ atask' = [atask EXCEPT ![chat_id][token] = "none"]
  /\ tw_scraped' = MarkScraped(FIRST_SEEN, tw_scraped, token)
  /\ FIRST_SEEN' = TaskStore(FIRST_SEEN, token)
  /\ \E ok \in SaveOutcomes :
       fsFile' = IF FIRST_SEEN[token] # NoRec
                   THEN _save_first_seen(FIRST_SEEN', fsFile, ok) ELSE fsFile
  /\ \E sent \in BOOLEAN :
       IF sent
         THEN \E net \in NetsFor(cache, TwUrl(token), TRUE, now) :
                LET r == scrape_url(cache, successful_service, TwUrl(token), TRUE,
                                    0, net, now)
                IN  /\ cache' = r.cache
                    /\ \E ok \in (IF SavesCache(r) THEN SaveOutcomes ELSE {FALSE}) :
                         cacheFile' = _save_cache(r.cache, cacheFile, ok)
                    /\ successful_service' = r.successful_service
                    /\ scrape' = Observed(TwUrl(token), TRUE, cache, net, r, now,
                                          scrape)
         ELSE UNCHANGED << cache, cacheFile, successful_service, scrape >>
  /\ ev' = {}
  /\ UNCHANGED << now, env, TWITTER_BLACKLIST, blacklistFile, trade, mirrorStore, MIRROR, TRACKED, LAST_PINNED, SUBS,
                  discLocals, updLocals, pins, trackedAt, evicted, fireShown,
                  harness >>

\* ------------------------------------------------------------------------
\* The running system
\* ------------------------------------------------------------------------
InitEnv(e, subs, t0, fs) ==
  /\ now = t0
  /\ env = e
  /\ MIRROR = << >>
  /\ FIRST_SEEN = fs
  /\ fsFile = fs
  /\ TRACKED = {}
  /\ LAST_PINNED = [c \in Chats |-> [t \in Tokens |-> "none"]]
  /\ SUBS = subs
  /\ dpc = "idle" /\ dpairs = << >> /\ dchats = << >> /\ di = 0 /\ dj = 0
  /\ dpin = FALSE
  /\ upc = "idle" /\ unow = 0 /\ utoks = << >> /\ uk = 0 /\ um = NoM
  /\ uchats = << >> /\ ui = 0
  /\ pins = [c \in Chats |-> [t \in Tokens |-> 0]]
  /\ trackedAt = [t \in Tokens |-> 0]
  /\ evicted = {}
  /\ fireShown = [t \in Tokens |-> 0]
  /\ ev = {}
  /\ first_seen_data = [t \in Tokens |-> NoEntry]
  /\ dec = NoDec
  /\ hist = [t \in Tokens |-> NoHist]
  /\ cand = [row |-> NoRow, m |-> NoM]
  /\ verdict = "none"
  /\ refresh = "none"
  /\ cache = [k \in CacheKeys |-> NoCache]
  /\ successful_service = NoService
  /\ tw_scraped = [t \in Tokens |-> FALSE]
  /\ atask = [c \in Chats |-> [t \in Tokens |-> "none"]]
  /\ scrape = NoScrape
  /\ MIRROR_pairs = {}
  /\ mirrorFile = NoMirrorFile
  /\ boot = "missing"
  /\ trade = NoTrade
  /\ TWITTER_BLACKLIST = {}
  /\ blacklistFile = {}
  /\ cacheFile = [k \in CacheKeys |-> NoCache]

\* the start in surroundings where sends can fail in every way
InitState(tokens, rows, disk_fails, subs, t0, fs) ==
  InitEnv([listed |-> tokens, rows |-> rows, disk_fails |-> disk_fails,
           send_fails |-> TRUE], subs, t0, fs)

\* the state after the start with empty state files
InitWith(tokens, rows, disk_fails, subs, t0) ==
  InitState(tokens, rows, disk_fails, subs, t0, [t \in Tokens |-> NoRec])

\* one token on the market, one subscribed chat, a disk that works
Init == InitWith({"t1"}, Rows, FALSE, {"c1"}, StartTime)

Next ==
  \/ Tick
  \/ \E t \in env.listed, row \in env.rows : Ingest(t, row)
  \/ DiscoveryStart
  \/ DiscoverySent
  \/ DiscoveryNext
  \/ UpdaterStart
  \/ UpdaterSent
  \/ UpdaterNext

Spec == Init /\ [][Next]_vars

\* The same system with two subscribed chats; the provider returns one row,
\* over every threshold.
RowsPassing == { Row(50000, 80000, 45000, StartTime) }

InitChats == InitWith({"t1"}, RowsPassing, FALSE, Chats, StartTime)

SpecChats == InitChats /\ [][Next]_vars

\* one token, one subscribed chat, a disk whose writes can fail
InitDisk == InitWith({"t1"}, RowsPassing, TRUE, {"c1"}, StartTime)

SpecDisk == InitDisk /\ [][Next]_vars

\* The job queue starts updater again after every interval, the event loop
\* resumes a cycle that awaits a send or a sleep, and the clock advances.
\* Nothing is assumed about the provider's answers or about the ingester.
RefreshKeepsRunning ==
  /\ WF_vars(Tick)
  /\ WF_vars(UpdaterStart)
  /\ WF_vars(UpdaterSent)
  /\ WF_vars(UpdaterNext)

SpecDiskFair == InitDisk /\ [][Next]_vars /\ RefreshKeepsRunning

SpecFair == Init /\ [][Next]_vars /\ RefreshKeepsRunning

\* two tokens on the market, one subscribed chat
InitTwo == InitWith(Tokens, RowsPassing, FALSE, {"c1"}, StartTime)

\* the cycles of the three jobs within one minute
NextTwo ==
  \/ \E t \in env.listed, row \in env.rows : Ingest(t, row)
  \/ DiscoveryStart
  \/ DiscoverySent
  \/ DiscoveryNext
  \/ UpdaterStart
  \/ UpdaterSent
  \/ UpdaterNext

SpecTwo == InitTwo /\ [][NextTwo]_vars

\* one token, two subscribed chats, a disk whose writes can fail, a
\* transport that delivers every message
InitChatsDisk ==
  InitEnv([listed |-> {"t1"}, rows |-> RowsPassing, disk_fails |-> TRUE,
           send_fails |-> FALSE], Chats, StartTime, [t \in Tokens |-> NoRec])

SpecChatsDisk == InitChatsDisk /\ [][NextTwo]_vars

\* one token, two subscribed chats, a disk and a transport that work; the
\* cycles of the jobs within one minute, and /resettoken at any point
InitReset ==
  InitEnv([listed |-> {"t1"}, rows |-> RowsPassing, disk_fails |-> FALSE,
           send_fails |-> FALSE], Chats, StartTime, [t \in Tokens |-> NoRec])

NextReset ==
  \/ NextTwo
  \/ \E t \in env.listed : cmd_resettoken(t)

SpecReset == InitReset /\ [][NextReset]_vars

\* one token, two subscribed chats, a disk and a transport that work; the
\* cycles of the jobs within one minute, and /unsubscribe at any point
NextUnsub ==
  \/ NextTwo
  \/ \E c \in Chats : cmd_unsub(c)

SpecUnsub == InitReset /\ [][NextUnsub]_vars

\* two tokens on the market, one subscribed chat, a disk and a transport
\* that work
InitTrade ==
  InitEnv([listed |-> Tokens, rows |-> RowsPassing, disk_fails |-> FALSE,
           send_fails |-> FALSE], {"c1"}, StartTime, [t \in Tokens |-> NoRec])

\* the discovery task and the /trade handler beside the ingester
NextTrade ==
  \/ \E t \in env.listed, row \in env.rows : Ingest(t, row)
  \/ DiscoveryStart
  \/ DiscoverySent
  \/ DiscoveryNext
  \/ \E c \in Chats, cap \in TradeCaps : cmd_trade(c, cap)
  \/ TradeSent
  \/ TradeSentUpdate
  \/ TradeNext

SpecTrade == InitTrade /\ [][NextTrade]_vars

\* The ingester with the mirror and its file: the provider lists up to two
\* tokens per cycle, in any order, each record in any shape
ProfileLists ==
  UNION { UNION { { [i \in DOMAIN order |-> Profile(order[i], shape[order[i]], row[order[i]])] :
                      order \in Perms(S) } :
                  shape \in [S -> Shapes], row \in [S -> env.rows] } :
          S \in SUBSET env.listed \ {{}} }

InitIngest == InitWith(Tokens, RowsPassing, FALSE, {}, StartTime)

NextIngest ==
  \/ \E profiles \in ProfileLists : ingester(profiles)
  \/ DamageStorage
  \/ Startup

SpecIngest == InitIngest /\ [][NextIngest]_vars

\* The resolver and the resolution task on their own: one token whose
\* baseline record exists (a discovery cycle created it), one subscribed
\* chat that got the token's discovery alert, an empty cache
InitResolver ==
  InitState({"t1"}, {}, FALSE, {"c1"}, StartTime,
            [t \in Tokens |-> IF t = "t1"
                                THEN [first |-> 80000, ts |-> StartTime]
                                ELSE NoRec])

NextResolver ==
  \/ ResolverTick
  \/ ScrapeCall

SpecResolver == InitResolver /\ [][NextResolver]_vars

\* preferred_service of a call: None, or the index of the second proxy
PreferredChoices == { 0, Len(READER_SERVICES) - 1 }

\* any call of scrape_url: with or without the cache, with a proxy
\* preferred or none, for a list that can be long (a call served from the
\* cache meets no network, and one stands for all)
ResolveCall ==
  \E url \in Urls, use_cache \in BOOLEAN, preferred_service \in PreferredChoices :
    ScrapeWith(IF use_cache /\ get_cached_usernames(cache, url, now).hit
                 THEN { CHOOSE n \in WideNets : TRUE } ELSE WideNets,
               url, use_cache, preferred_service)

NextCap ==
  \/ ResolveCall

SpecCap == InitResolver /\ [][NextCap]_vars

\* the resolver beside the /blacklist command and restarts of the process,
\* within the freshness window of the cache, with state files whose writes
\* go through; every resolve call may use the cache
InitBlacklist ==
  InitEnv([listed |-> {"t1"}, rows |-> {}, disk_fails |-> FALSE,
           send_fails |-> FALSE], {}, StartTime,
          [t \in Tokens |-> IF t = "t1"
                              THEN [first |-> 80000, ts |-> StartTime]
                              ELSE NoRec])

NextBlacklist ==
  \/ \E url \in Urls : Scrape(url, TRUE)
  \/ \E arg \in BlacklistArgs : cmd_blacklist("add", arg)
  \/ \E arg \in BlacklistArgs : cmd_blacklist("remove", arg)
  \/ cmd_blacklist("clear", "")
  \/ Startup

SpecBlacklist == InitBlacklist /\ [][NextBlacklist]_vars

\* The callers of the resolver in the bot: the /scrape command and the
\* resolution task that follows a discovery alert
NextAuto ==
  \/ ResolverTick
  \/ cmd_scrape
  \/ \E c \in SUBS, t \in env.listed : AutoTrigger(c, t)
  \/ \E c \in SUBS, t \in env.listed : AutoTaskBegin(c, t)
  \/ \E c \in SUBS, t \in env.listed : AutoTaskScrape(c, t)

SpecAuto == InitResolver /\ [][NextAuto]_vars

\* The alert path with the scraper switched on, within one minute: the
\* cycles of the three jobs and the resolution tasks they start
NextAlertAuto ==
  \/ \E t \in env.listed, row \in env.rows : Ingest(t, row)
  \/ DiscoveryStart
  \/ DiscoverySentAuto
  \/ DiscoveryNext
  \/ UpdaterStart
  \/ UpdaterSent
  \/ UpdaterNext
  \/ \E c \in Chats, t \in env.listed : AutoTaskBegin(c, t)
  \/ \E c \in Chats, t \in env.listed : AutoTaskScrape(c, t)

\* one token passing the filter, one subscribed chat
InitAlertAuto == InitWith({"t1"}, RowsPassing, FALSE, {"c1"}, StartTime)

SpecAlertAuto == InitAlertAuto /\ [][NextAlertAuto]_vars

\* ------------------------------------------------------------------------
\* The decoration on its own: decorate_with_first_seen (src/main.py) and
\* TokenManager.update_first_seen (the refactored variant), called with any
\* market-caps at any time
\* ------------------------------------------------------------------------
\* the market-caps of the pairs handed to the decoration
DecMcaps == {0, 50000, 80000, 150000}

\* TokenInfo(...): a fresh record, is_first_time False, first_mcap_usd 0.0
TokenInfo(tok, mcap) ==
  [token |-> tok, liquidity_usd |-> 0, mcap_usd |-> mcap, vol24_usd |-> 0,
   age_min |-> 0, is_first_time |-> FALSE, first_mcap_usd |-> 0]

\* TokenManager.update_first_seen(token_info) at time t: the table and the
\* token_info returned
update_first_seen(data, token_info, t) ==
  LET token_key == token_info.token
      is_new == (data[token_key] = NoEntry)
      data2 == IF is_new
                 THEN [data EXCEPT ![token_key] =
                         [first_mcap |-> token_info.mcap_usd, first_seen |-> t]]
                 ELSE data
  IN  [data |-> data2,
       token_info |-> [token_info EXCEPT
                         !.is_first_time = IF is_new THEN TRUE ELSE @,
                         !.first_mcap_usd = data2[token_key].first_mcap]]

\* what the history of a token becomes when it is decorated with mcap while
\* its record is rec: the market-cap the record is created with, and the
\* first positive market-cap decorated after a creation with 0
HistAfter(h, rec, mcap) ==
  IF rec = NoRec THEN [born |-> mcap, fill |-> 0]
  ELSE IF h.born = 0 /\ h.fill = 0 /\ mcap > 0 THEN [h EXCEPT !.fill = mcap]
  ELSE h

DecorateEvents(pairs, impl) ==
  { Event("decorate", "", pairs[i].token, pairs[i].mcap_usd,
          pairs[i].first_mcap_usd, pairs[i].is_first_time, impl) :
      i \in DOMAIN pairs }

\* one call decorate_with_first_seen(pairs), with the save that ends it
DecorateCall ==
  \E S \in SUBSET env.listed \ {{}} :
  \E mc \in [S -> DecMcaps] :
  \E order \in Perms(S) :
    LET pairs == best_per_token([i \in DOMAIN order |-> TokenInfo(order[i], mc[order[i]])])
        d == decorate_with_first_seen(FIRST_SEEN, pairs, Len(pairs), now)
    IN  /\ FIRST_SEEN' = d.fs
        /\ \E ok \in (IF d.changed THEN SaveOutcomes ELSE {TRUE}) :
             fsFile' = IF d.changed THEN _save_first_seen(d.fs, fsFile, ok) ELSE fsFile
        /\ dec' = [dec EXCEPT !.main = d.pairs]
        /\ hist' = [t \in Tokens |->
                      IF t \in S THEN HistAfter(hist[t], FIRST_SEEN[t], mc[t])
                      ELSE hist[t]]
        /\ ev' = DecorateEvents(d.pairs, "main")
        /\ UNCHANGED << now, env, blacklistStore, trade, mirrorStore, MIRROR, TRACKED, LAST_PINNED, SUBS, discLocals,
                        updLocals, pins, trackedAt, evicted, fireShown,
                        first_seen_data, cand, verdict, refresh, resolver >>

\* one call TokenManager.update_first_seen(token_info)
UpdateFirstSeenCall ==
  \E tok \in env.listed, mcap \in DecMcaps :
    LET r == update_first_seen(first_seen_data, TokenInfo(tok, mcap), now)
    IN  /\ first_seen_data' = r.data
        /\ dec' = [dec EXCEPT !.deepseek = << r.token_info >>]
        /\ ev' = DecorateEvents(<< r.token_info >>, "deepseek")
        /\ UNCHANGED << now, env, blacklistStore, trade, mirrorStore, MIRROR, FIRST_SEEN, fsFile, TRACKED, LAST_PINNED,
                        SUBS, discLocals, updLocals, pins, trackedAt, evicted,
                        fireShown, hist, cand, verdict, refresh, resolver >>

\* one token, a disk whose writes can fail
InitDecorate == InitWith({"t1"}, {}, TRUE, {}, StartTime)

NextDecorate ==
  \/ Tick
  \/ DecorateCall
  \/ UpdateFirstSeenCall

SpecDecorate == InitDecorate /\ [][NextDecorate]_vars

\* ------------------------------------------------------------------------
\* The filter on its own: a provider row made into an alert dict as
\* _pairs_from_mirror does, then given to passes_filters_for_alert
\* ------------------------------------------------------------------------
\* the time of the calls, late enough for a pair to be older than MAX_AGE_MIN
FilterNow == StartTime + MAX_AGE_MIN + TickStep

\* liquidity, market-cap and volume below, at and above the thresholds, and
\* 0 (nothing reported); pairCreatedAt absent (0), or such that the pair is
\* 5 minutes old, MAX_AGE_MIN old, one minute older
FilterRows ==
  { Row(l, mc, v, c) :
      l \in {20000, MIN_LIQ_USD, 40000},
      mc \in {0, 50000, MIN_MCAP_USD, 80000},
      v \in {0, 30000, MIN_VOL_H24_USD, 45000},
      c \in {0, FilterNow - 5, FilterNow - MAX_AGE_MIN, FilterNow - MAX_AGE_MIN - 1} }

FilterCall ==
  \E row \in env.rows :
    LET m == RowToM("t1", row, now)
    IN  /\ cand' = [row |-> row, m |-> m]
        /\ verdict' = IF passes_filters_for_alert(m) THEN "pass" ELSE "reject"
        /\ refresh' = "none"
        /\ ev' = {}
        /\ UNCHANGED << now, env, blacklistStore, trade, mirrorStore, MIRROR, FIRST_SEEN, fsFile, TRACKED, LAST_PINNED,
                        SUBS, discLocals, updLocals, pins, trackedAt, evicted,
                        fireShown, first_seen_data, dec, hist, resolver >>

InitFilter == InitWith({"t1"}, FilterRows, FALSE, {}, FilterNow)

\* The body of updater's loop on the same candidate: the token is tracked,
\* its baseline record was created in this minute (the duration rule does
\* not apply), one chat is subscribed, and _best_pool_for_mint returns the
\* candidate's row.  refresh is what the loop did: "alert", "filtered",
\* "age" (evicted).
RefreshCall ==
  /\ verdict # "none"
  /\ refresh = "none"
  /\ LET tok == cand.m.token
         fs == [FIRST_SEEN EXCEPT ![tok] = [first |-> cand.row.mcap, ts |-> now]]
         w == UpdaterWalk(fs, << tok >>, 1, {tok}, {"c1"},
                          [x \in env.listed |-> cand.row], now, now, {})
     IN  refresh' = (CHOOSE e \in w.exams : e.token = tok).what
  /\ ev' = {}
  /\ UNCHANGED << now, env, blacklistStore, trade, mirrorStore, MIRROR, FIRST_SEEN, fsFile, TRACKED, LAST_PINNED,
                  SUBS, discLocals, updLocals, pins, trackedAt, evicted,
                  fireShown, first_seen_data, dec, hist, cand, verdict, resolver >>

NextFilter ==
  \/ FilterCall
  \/ RefreshCall

SpecFilter == InitFilter /\ [][NextFilter]_vars

\* ------------------------------------------------------------------------
\* Properties of the running system
\* ------------------------------------------------------------------------
HasBaseline(fs, t) == fs[t] # NoRec /\ fs[t].first # 0

\* C1: a stored first_mcap, once non-zero, is never changed by any discovery
\* cycle, refresh cycle or alert dispatch.
C1_BaselineNeverChanges ==
  [][\A t \in Tokens :
       HasBaseline(FIRST_SEEN, t) =>
         FIRST_SEEN'[t] # NoRec /\ FIRST_SEEN'[t].first = FIRST_SEEN[t].first]_vars

\* C4: for a fixed (destination, token) pair, repeated calls of
\* send_new_token produce at most one pin action.
C4_AtMostOnePin ==
  \A c \in Chats, t \in Tokens : pins[c][t] <= 1

\* a second fire alert was delivered to a chat that had its pin for the token
C4_Witness ==
  \E e \in ev : e.kind = "fire" /\ ~e.flag /\ pins[e.chat][e.token] = 1

C8_NoFireAfterEviction ==
  \A e \in ev :
    (e.kind = "fire_call" /\ e.token \in evicted) => e.flag

\* C8 as amended: whenever the discovery task puts a token into the tracking
\* set (also again, after an eviction, with is_first_time = false), it calls
\* send_new_token for it in the same iteration.
C8_FireOnEveryEntry ==
  [][\A t \in Tokens :
       (t \notin TRACKED /\ t \in TRACKED') =>
         \E e \in ev' : e.kind = "fire_call" /\ e.token = t]_vars

\* a fire alert dispatched for an evicted token that was not first-time
C8_Witness ==
  \E e \in ev :
    /\ e.kind = "fire_call" /\ e.token \in evicted /\ ~e.flag
    /\ e.token \in TRACKED

\* C9: every refresh alert reports as baseline the market-cap shown in the
\* token's first fire alert.
C9_RefreshReportsFirstFire ==
  \A e \in ev :
    (e.kind = "ice" /\ fireShown[e.token] # 0) => e.b = fireShown[e.token]

\* C10: the first fire alert delivered for a (destination, token) without a
\* PinRecord is pinned, whichever path delivered it.
C10_FirstFireIsPinned ==
  [][\A e \in ev' :
       (e.kind = "fire" /\ LAST_PINNED[e.chat][e.token] = "none") =>
         pins'[e.chat][e.token] = pins[e.chat][e.token] + 1]_vars

\* ------------------------------------------------------------------------
\* Properties of the decoration
\* ------------------------------------------------------------------------
\* the baseline stored for token tok by the function impl, -1 if none
StoredFirst(fs, data, impl, tok) ==
  IF impl = "main" THEN fs[tok].first ELSE data[tok].first_mcap

\* C2: decorating a token whose stored first_mcap is non-zero, with any
\* market-cap, leaves the stored first_mcap unchanged and returns
\* is_first_time = false (decorate_with_first_seen and update_first_seen).
C2_DecorationKeepsBaseline ==
  [][\A e \in ev' :
       (e.kind = "decorate" /\
        StoredFirst(FIRST_SEEN, first_seen_data, e.what, e.token) \notin {-1, 0}) =>
         /\ StoredFirst(FIRST_SEEN', first_seen_data', e.what, e.token) =
              StoredFirst(FIRST_SEEN, first_seen_data, e.what, e.token)
         /\ ~e.flag]_vars

\* decorate_with_first_seen has decorated a token holding a non-zero baseline
\* with the market-cap 0, and update_first_seen one with a higher market-cap
C2_Witness ==
  /\ \E i \in DOMAIN dec.main :
       /\ dec.main[i].first_mcap_usd > 0
       /\ dec.main[i].mcap_usd = 0
       /\ ~dec.main[i].is_first_time
       /\ FIRST_SEEN[dec.main[i].token].first = dec.main[i].first_mcap_usd
  /\ \E i \in DOMAIN dec.deepseek :
       /\ dec.deepseek[i].first_mcap_usd > 0
       /\ dec.deepseek[i].mcap_usd > dec.deepseek[i].first_mcap_usd
       /\ ~dec.deepseek[i].is_first_time
       /\ first_seen_data[dec.deepseek[i].token].first_mcap =
            dec.deepseek[i].first_mcap_usd

\* C3: a baseline created with first_mcap = 0 is set by the first later
\* decoration with mcap > 0 to that mcap, and stays at that value under every
\* decoration after it; until then it stays 0.
C3_BackfillOnce ==
  \A t \in Tokens :
    hist[t].born = 0 =>
      /\ FIRST_SEEN[t] # NoRec
      /\ FIRST_SEEN[t].first = hist[t].fill

\* a token created with 0, filled with 150000, and decorated afterwards with
\* a lower market-cap
C3_Witness ==
  \E i \in DOMAIN dec.main :
    LET m == dec.main[i]
    IN  /\ hist[m.token].born = 0
        /\ hist[m.token].fill > 0
        /\ m.first_mcap_usd = hist[m.token].fill
        /\ m.mcap_usd < hist[m.token].fill

\* ------------------------------------------------------------------------
\* Properties of the filter
\* ------------------------------------------------------------------------
Called == verdict # "none"

\* C5 as claimed: a candidate with enough liquidity and an age within the
\* maximum is rejected only for a market-cap or a volume that is positive
\* and below its threshold; with these zero/unknown it passes.
C5_MissingDataNotRejected ==
  (Called /\ cand.m.liquidity_usd >= MIN_LIQ_USD /\ cand.m.age_min <= MAX_AGE_MIN) =>
    ((verdict = "reject") <=>
       \/ (cand.m.mcap_usd > 0 /\ cand.m.mcap_usd < MIN_MCAP_USD)
       \/ (cand.m.vol24_usd > 0 /\ cand.m.vol24_usd < MIN_VOL_H24_USD))

\* C5 as amended: the filter rejects a candidate whose market-cap or 24h
\* volume is below its threshold, a zero/unknown value included (it counts
\* as 0); a candidate with enough liquidity and an age within the maximum
\* passes exactly when both its market-cap and its volume reach their
\* thresholds.
C5_ZeroIsBelowThreshold ==
  Called =>
    /\ (cand.row.mcap = 0 \/ cand.row.vol = 0) => verdict = "reject"
    /\ (cand.m.liquidity_usd >= MIN_LIQ_USD /\ cand.m.age_min <= MAX_AGE_MIN) =>
         ((verdict = "pass") <=>
            (cand.row.mcap >= MIN_MCAP_USD /\ cand.row.vol >= MIN_VOL_H24_USD))

\* the candidate liquidity 40000, mcap 0, volume 0, age 5 was rejected
C5_Witness ==
  /\ verdict = "reject"
  /\ cand.row.liq = 40000 /\ cand.row.mcap = 0 /\ cand.row.vol = 0
  /\ cand.m.age_min = 5

\* C6 as claimed: a candidate without pair-creation time is accepted whenever
\* its other checks pass.
C6_UnknownAgePasses ==
  (Called /\ cand.row.created = 0 /\ cand.row.liq >= MIN_LIQ_USD
     /\ cand.row.mcap >= MIN_MCAP_USD /\ cand.row.vol >= MIN_VOL_H24_USD) =>
    verdict = "pass"

\* C6 as amended: a candidate without pair-creation time is always rejected
\* (its age counts as infinite); a candidate whose other checks pass and
\* whose creation time is known is rejected exactly when its age is greater
\* than the maximum age.
C6_UnknownAgeRejected ==
  Called =>
    /\ cand.row.created = 0 => verdict = "reject"
    /\ (cand.row.created # 0 /\ cand.row.liq >= MIN_LIQ_USD
          /\ cand.row.mcap >= MIN_MCAP_USD /\ cand.row.vol >= MIN_VOL_H24_USD) =>
         ((verdict = "reject") <=> (now - cand.row.created > MAX_AGE_MIN))

\* a candidate without creation time, over every threshold, was rejected
C6_Witness ==
  /\ verdict = "reject"
  /\ cand.row.created = 0
  /\ cand.row.liq >= MIN_LIQ_USD
  /\ cand.row.mcap >= MIN_MCAP_USD
  /\ cand.row.vol >= MIN_VOL_H24_USD

\* ------------------------------------------------------------------------
\* Properties of the running system, continued
\* ------------------------------------------------------------------------
\* C11: no step of the refresh task (updater, send_price_update) calls
\* pin_chat_message or changes the pin table LAST_PINNED.
C11_RefreshNeverPins ==
  [][(UpdaterStart \/ UpdaterSent \/ UpdaterNext) =>
       (LAST_PINNED' = LAST_PINNED /\ pins' = pins)]_vars

\* a refresh alert was delivered to a chat that holds no pin record for the
\* token
C11_Witness ==
  \E e \in ev :
    /\ e.kind = "ice"
    /\ LAST_PINNED[e.chat][e.token] = "none"
    /\ pins[e.chat][e.token] = 0

\* C12: an exception of the transport for one chat never ends the cycle:
\* while chats remain in the loop, the step that takes the result of a send
\* does not end do_trade_push, nor updater.
C12_SendFailureKeepsCycle ==
  [][/\ (dpc = "sending" /\ di < Len(dchats)) => dpc' # "idle"
     /\ (upc = "sending" /\ ui < Len(uchats)) => upc' # "idle"]_vars

\* C13: when a send fails without delivering a message because the transport
\* rejects it (BadRequest "Chat not found", Forbidden, ...), the chat is no
\* longer subscribed once _send_or_photo has returned.
C13_FailedChatRemoved ==
  \A e \in ev : e.kind = "send_fail" => e.chat \notin SUBS

\* the mints of the mirror
Mints(mirror) == { mirror[i].mint : i \in DOMAIN mirror }

\* C20: every upsert of a token raises its seen count by exactly one; no
\* step lowers a seen count or removes an entry of the mirror.
C20_SeenCountsUpserts ==
  [][/\ \A t \in Tokens : SeenOf(MIRROR', t) >= SeenOf(MIRROR, t)
     /\ Mints(MIRROR) \subseteq Mints(MIRROR')
     /\ \A e \in ev' :
          e.kind = "upsert" =>
            SeenOf(MIRROR', e.token) = SeenOf(MIRROR, e.token) + 1]_vars

\* a token that was upserted a second time
C20_Witness ==
  \E e \in ev : e.kind = "upsert" /\ e.a >= 1 /\ e.b = e.a + 1

\* ------------------------------------------------------------------------
\* Properties of the resolver
\* ------------------------------------------------------------------------
ListKey == _get_cache_key(ListUrl)

\* the handles in what the third configured proxy delivered during the call
FromThird(s) ==
  UNION { extract_usernames(s.log[k].content) :
            k \in { j \in DOMAIN s.log : s.log[j].service = READER_SERVICES[3] } }

C15_StaleEntryRefreshed ==
  /\ scrape.hit =>
       (scrape.at - cache[ListKey].timestamp) * 60 < CACHE_MAX_AGE_SEC
  /\ scrape.had = "stale" =>
       /\ ~scrape.hit
       /\ scrape.log # << >>
       /\ scrape.result # {} =>
            cache[ListKey] = [usernames |-> scrape.result, timestamp |-> scrape.at]

\* a cache-enabled call that found a stale entry and replaced it by another
\* handle set
C15_Witness ==
  /\ scrape.use_cache /\ scrape.had = "stale"
  /\ scrape.result # {} /\ ~scrape.prev.same
  /\ cache[ListKey] = [usernames |-> scrape.result, timestamp |-> scrape.at]

\* every attempt of the call ended without content
AllFailed(log) == log # << >> /\ \A k \in DOMAIN log : log[k].content = NoContent

\* each proxy was tried for each variant
AllTried(log) ==
  \A i \in DOMAIN generate(ListUrl), s \in Services :
    \E k \in DOMAIN log : log[k].variant = i /\ log[k].service = s

\* C16: a call in which every proxy fails for every variant returns the
\* empty set and leaves the cache as it was.
C16_AllFailLeavesCache ==
  [][AllFailed(scrape'.log) =>
       (AllTried(scrape'.log) /\ scrape'.result = {} /\ cache' = cache)]_vars

\* such a call, made while the cache held an entry
C16_Witness ==
  /\ AllFailed(scrape.log) /\ AllTried(scrape.log)
  /\ scrape.result = {}
  /\ cache[ListKey] # NoCache

\* the indices of the log where the fetch of a variant starts
Starts(log) ==
  { k \in DOMAIN log : k = 1 \/ log[k - 1].variant # log[k].variant }

\* the last successful proxy recorded after the fetch that log[k] belongs
\* to: what the next fetch started with or, for the last fetch of the last
\* call, the value held now
RecordedAfter(log, k, succ) ==
  IF \E j \in Starts(log) : j > k
    THEN log[CHOOSE j \in Starts(log) : j > k /\ \A h \in Starts(log) : h > k => j <= h].hint
    ELSE succ

\* C18: a fetch that starts with a last successful proxy recorded tries
\* that proxy first, and after a fetch that got content the recorded proxy
\* is the one that delivered it.
C18_SuccessAffinity ==
  /\ \A k \in Starts(scrape.log) :
       scrape.log[k].hint # NoService => scrape.log[k].service = scrape.log[k].hint
  /\ \A k \in DOMAIN scrape.log :
       scrape.log[k].content # NoContent =>
         RecordedAfter(scrape.log, k, successful_service) = scrape.log[k].service

\* a fetch that went first to a recorded proxy other than the first
\* configured one and got its content there
C18_Witness ==
  \E k \in Starts(scrape.log) :
    /\ scrape.log[k].hint \in Services \ { READER_SERVICES[1] }
    /\ scrape.log[k].service = scrape.log[k].hint
    /\ scrape.log[k].content # NoContent
    /\ RecordedAfter(scrape.log, k, successful_service) = scrape.log[k].hint

\* C19: within the fetch of one variant each configured proxy is attempted
\* at most once.
C19_EachProxyOncePerVariant ==
  \A j, k \in DOMAIN scrape.log :
    (scrape.log[j].variant = scrape.log[k].variant
       /\ scrape.log[j].service = scrape.log[k].service) => j = k

C21_DamagedMirrorLoadsEmpty ==
  [][/\ (\E e \in ev' : e.kind = "startup" /\ e.what \in { "missing", "corrupt" }) =>
          (MIRROR' = << >> /\ MIRROR_pairs' = {})
     /\ \A e \in ev' : e.kind = "upsert" =>
          /\ SeenOf(MIRROR', e.token) = e.b
          /\ PairOf(e.token) \in MIRROR_pairs'
          /\ \E i \in DOMAIN _pairs_from_mirror(MIRROR', now') :
               _pairs_from_mirror(MIRROR', now')[i].token = e.token]_vars

\* the process started on a file that could not be decoded, and a cycle of
\* the ingester has since put a token into the mirror
C21_Witness ==
  /\ boot = "corrupt"
  /\ \E e \in ev : e.kind = "upsert" /\ e.a = 0 /\ e.token \in Mints(MIRROR)

\* C28: in a cycle of the ingester every well-formed record is upserted and
\* the mirror is flushed at the end, whatever the other records look like.
C28_MalformedRecordSkipped ==
  \A e \in ev : e.kind = "cycle" => (e.a = e.b /\ e.flag)

\* ------------------------------------------------------------------------
\* Properties of the baseline store under backfill and failing writes
\* ------------------------------------------------------------------------
\* C23: the first_mcap that decorate_with_first_seen attaches to a pair is
\* the baseline stored for its token after the call, also when the call
\* has filled a zero baseline with the current market-cap.
C23_DecoratedIsStoredBaseline ==
  \A i \in DOMAIN dec.main :
    dec.main[i].first_mcap_usd = FIRST_SEEN[dec.main[i].token].first

\* ------------------------------------------------------------------------
\* Properties of the filter at refresh
\* ------------------------------------------------------------------------
\* C25: a tracked token gets a refresh alert for a snapshot exactly when
\* passes_filters_for_alert accepts the same snapshot for a discovery alert,
\* also when the age of the pair is MAX_AGE_MIN.
C25_SameDecisionAtRefresh ==
  refresh # "none" => ((refresh = "alert") <=> (verdict = "pass"))

\* ------------------------------------------------------------------------
\* Properties of the discovery cycle: repeated alerts
\* ------------------------------------------------------------------------
\* C24: a token that has been in TRACKED without interruption since it
\* first entered gets at most one fire alert delivered to each chat.
C24_OneFirePerChatWhileTracked ==
  [][\A e \in ev' :
       e.kind = "fire" =>
         ~(LAST_PINNED[e.chat][e.token] # "none" /\ e.token \notin evicted')]_vars

\* ------------------------------------------------------------------------
\* Properties of the refresh cycle: empty lookups
\* ------------------------------------------------------------------------
\* the tokens the loop of updater has still to go through when a step starts
Ahead == IF upc = "idle" THEN TRACKED
         ELSE { utoks[k] : k \in (uk + 1)..Len(utoks) }

\* C29: when _best_pool_for_mint returns nothing for a tracked token, the
\* cycle sends no alert for it, leaves its membership of TRACKED, its
\* baseline record and its LAST_PINNED entries as they are, and goes on to
\* the tokens after it: each of them is examined in the same run of the
\* loop, or is still ahead when the loop suspends to send an alert.
C29_EmptyLookupSkipsTokenOnly ==
  [][/\ (upc # "idle" /\ upc' # "idle") => (utoks' = utoks /\ uk' >= uk)
     /\ \A e \in ev' :
          (e.kind = "exam" /\ e.what = "nodata") =>
            /\ e.token \in TRACKED /\ e.token \in TRACKED'
            /\ FIRST_SEEN'[e.token] = FIRST_SEEN[e.token]
            /\ fsFile'[e.token] = fsFile[e.token]
            /\ \A c \in Chats : LAST_PINNED'[c][e.token] = LAST_PINNED[c][e.token]
            /\ upc' = "sending" => um'.token # e.token
            /\ \A t \in Ahead \ {e.token} :
                 \/ \E x \in ev' : x.kind = "exam" /\ x.token = t
                 \/ /\ upc' = "sending"
                    /\ \E k \in (uk' + 1)..Len(utoks') : utoks'[k] = t]_vars

\* a cycle in which the lookup for one tracked token returned nothing and
\* the token after it got its alert
C29_Witness ==
  /\ upc = "sending"
  /\ \E e1, e2 \in ev :
       /\ e1.kind = "exam" /\ e1.what = "nodata"
       /\ e2.kind = "exam" /\ e2.what = "alert"
       /\ e1.token # e2.token
       /\ um.token = e2.token

\* ------------------------------------------------------------------------
\* Properties of the discovery cycle: failed deliveries
\* ------------------------------------------------------------------------
\* C27: a discovery cycle that comes to a subscribed chat and a token
\* passing the filter, while no fire alert for the token has yet been
\* delivered to the chat (the earlier attempt sent no message), calls
\* send_new_token for them: it does not go on to its sleep without a send.
C27_FailedFireTriedAgain ==
  [][(dpc # "sending" /\ dpc' = "sleeping" /\ dchats'[di'] \in SUBS) =>
       LAST_PINNED[dchats'[di']][dpairs'[dj'].token] # "none"]_vars

\* ------------------------------------------------------------------------
\* Properties of the tracking lifetime
\* ------------------------------------------------------------------------
\* C26: a token that is in TRACKED while the clock has still a tracking
\* duration to go is removed from TRACKED at some later time, whether or
\* not FIRST_SEEN holds a record for it and whatever the lookups return.
C26_TrackedEventuallyRemoved ==
  \A t \in Tokens :
    (t \in TRACKED /\ now + TickStep \in Times) ~> (t \notin TRACKED)

\* ------------------------------------------------------------------------
\* Properties of the discovery cycle: failing writes of the baseline file
\* ------------------------------------------------------------------------
\* C22: when do_trade_push calls send_new_token for a token that the
\* decoration of this cycle classified as first-time, the call gets to the
\* delivery of the alert, whether or not the baseline file could be written.
C22_FirstTimeAlertSentDespiteWriteFailure ==
  [][\A e \in ev' : (e.kind = "fire_call" /\ e.flag) => dpc' = "sending"]_vars

C35_MemoryBaselineKept ==
  [][\A t \in Tokens :
       FIRST_SEEN[t] # NoRec =>
         /\ FIRST_SEEN'[t] # NoRec
         /\ FIRST_SEEN'[t].ts = FIRST_SEEN[t].ts]_vars

\* C37: every token in TRACKED has a record in the baseline store.
C37_TrackedHaveBaseline ==
  \A t \in TRACKED : FIRST_SEEN[t] # NoRec

\* C36: with every write and every send going through, no discovery cycle
\* raises: a /resettoken handled while the cycle is suspended at a send
\* does not make it abort when it comes to the token again.
C36_ResetNeverAbortsCycle ==
  [][\A e \in ev' : e.kind # "raise"]_vars

\* ------------------------------------------------------------------------
\* Properties of the pin table
\* ------------------------------------------------------------------------
\* C34: every entry of LAST_PINNED belongs to a chat and token for which
\* pin_chat_message was called.
C34_PinRecordMeansPinAttempted ==
  \A c \in Chats, t \in Tokens : LAST_PINNED[c][t] # "none" => pins[c][t] >= 1

\* ------------------------------------------------------------------------
\* Properties of the discovery cycle: the chats of one cycle
\* ------------------------------------------------------------------------
\* C38: a discovery cycle that is dispatching a fire alert to one chat does
\* not end with that dispatch while chats after it in its list are
\* subscribed: they get the alert in the same cycle.
C38_AllChatsServedInCycle ==
  [][(dpc = "sending" /\ dpc' = "idle") =>
       \A k \in (di + 1)..Len(dchats) : dchats[k] \notin SUBS']_vars
\* C39: once /unsubscribe of a chat has completed, neither a discovery
\* alert nor a refresh alert is delivered to that chat any more, a cycle
\* that was already under way included: every alert of a step goes to a
\* chat that was subscribed when the step began.
C39_NoAlertAfterUnsubscribe ==
  [][\A e \in ev' : e.kind \in {"fire", "ice"} => e.chat \in SUBS]_vars

\* C33: when the /trade handler and the discovery task interleave at their
\* awaits, a chat gets at most one pin call and at most one delivered
\* discovery alert per token: an alert is delivered only to a (chat, token)
\* that has no PinRecord yet, and no (chat, token) collects two pin calls.
C33_OnePinOneAlertUnderInterleaving ==
  [][/\ \A e \in ev' : e.kind = "fire" => LAST_PINNED[e.chat][e.token] = "none"
     /\ \A c \in Chats, t \in Tokens : pins'[c][t] <= 1]_vars

\* C31: whatever /blacklist commands, restarts and resolve calls came
\* before, a resolve call that may use the cache returns no handle that is
\* in the configured blacklist when the call is made.
C31_NoBlacklistedHandleReturned ==
  [][(\E url \in Urls : Scrape(url, TRUE)) =>
       scrape'.result \cap TWITTER_BLACKLIST = {}]_vars

\* the handles the call had accumulated when it turned to variant i
Accumulated(log, i) ==
  UNION { extract_usernames(log[k].content) :
            k \in { h \in DOMAIN log : log[h].variant < i } }

\* C32: a resolve call fetches each variant of the reference at most once
\* (and no variant is listed twice), makes at most as many attempts per
\* variant as there are configured proxies plus two, and fetches no further
\* variant once the handles it accumulated have reached the cap.
C32_BoundedAttempts ==
  /\ \A url \in Urls : \A i, j \in DOMAIN generate(url) :
       generate(url)[i] = generate(url)[j] => i = j
  /\ \A j, k \in Starts(scrape.log) :
       scrape.log[j].variant = scrape.log[k].variant => j = k
  /\ \A i \in DOMAIN generate(ListUrl) :
       Cardinality({ k \in DOMAIN scrape.log : scrape.log[k].variant = i })
         <= Len(READER_SERVICES) + 2
  /\ \A k \in DOMAIN scrape.log :
       Cardinality(Accumulated(scrape.log, scrape.log[k].variant))
         < TWITTER_MAX_USERNAMES

\* a call that got the largest page from the first variant, returned its
\* handles and made no attempt for the second variant
C32_Witness ==
  /\ scrape.at # 0
  /\ ~scrape.hit
  /\ Cardinality(scrape.result) >= TWITTER_MAX_USERNAMES
  /\ scrape.log # << >>
  /\ \A k \in DOMAIN scrape.log : scrape.log[k].variant = 1

====
